---- MODULE Spec2Model ----
(***************************************************************************)
(* A model of the trill runtime core: the ARC box (arc.cpp), the fatal     *)
(* error path and allocator (runtime.cpp) and the Any box (metadata.cpp).  *)
(*                                                                         *)
(* ARC operations are modelled at the granularity of their shared-memory   *)
(* accesses: one step per atomic fetch/load, per read of a box field and   *)
(* per call of free, so that threads interleave the way the code lets      *)
(* them.  Any operations are single-threaded handlers and are one step     *)
(* each.                                                                   *)
(***************************************************************************)
EXTENDS Integers, Sequences, FiniteSets, TLC

VARIABLES
  threads,    \* the threads of the program (fixed by the initial state)
  boxes,      \* the RefCountBox allocations, in allocation order
  ghost,      \* per box: the history of what was done to it (not program state)
  pc,         \* per thread: position inside the runtime call it is executing
  cur,        \* per thread: RefCounted::value of the call in flight
  prev,       \* per thread: the local `prev` of retain() / release()
  res,        \* per thread: the loaded result of isUniquelyReferenced()
  saw,        \* per thread: counts the box held during an isUniquelyReferenced call
  deinitLog,  \* what the deinitializer wrote: the pointers it was called with
  stderr,     \* lines written to the diagnostic stream
  exited,     \* the process has terminated through exit(-1)
  lastCall,   \* the Any or demangler call made most recently, and its result
  callsLeft,  \* how many more ARC (or trill_once) calls the program makes
  anys,       \* the AnyBox allocations, in allocation order
  predicate,  \* the once flag that trill_once is called with
  initialized,\* what the initializer passed to trill_once did: "begin", "end"
  stack,      \* the call stack of the process, as the fatal-error path sees it
  handlers,   \* per signal: the handler that signal() installed
  blocked,    \* the signals blocked because their handler is running
  executed,   \* the statements that callers ran after a runtime check
  exitStatus, \* how the process ended: still running, exit(n), or a signal
  generics    \* the GenericBox allocations, in allocation order

(* The state that the ARC, Any and demangler operations never touch *)
onceVars == <<predicate, initialized>>
fatalVars == <<stack, handlers, blocked, executed, exitStatus>>
otherVars == <<onceVars, fatalVars, generics>>

vars == <<threads, boxes, ghost, pc, cur, prev, res, saw, deinitLog, stderr,
          exited, lastCall, callsLeft, anys, otherVars>>

----------------------------------------------------------------------------
(* Bounds of the model *)

NThreads == 3
MaxBoxes == 2
MaxCalls == 5
MaxConcCalls == 3
MaxAnys == 3

(* Program constants *)

INT32_MAX == 2147483647
SizeofRefCountBox == 16
SizeofAnyBox == 32
PointerSize == 8
HeapBase == 4096
AnyHeapBase == 8192

NULL == 0
LogDeinit == 1             \* a deinitializer that appends its argument to deinitLog
Deinitializers == {NULL, LogDeinit}
PayloadSizes == {16}
FreedMemoryCounts == {0, 1, 0 - 1}   \* what a load from freed memory may yield

AllThreads == 1..NThreads

(* A FieldMetadata record; NoField stands for "no descriptor" *)
NoField == [name |-> "", typeMetadata |-> "", offset |-> 0]

(* A runtime call and what it returned: the Any it was made on, the field  *)
(* index, the second Any, the type descriptor, the returned word, the      *)
(* returned field descriptor, and for the demangler the symbol passed in   *)
(* and the text produced (each one only where the call has it)             *)
NoCall == [op |-> "none", any |-> 0, idx |-> 0, arg |-> 0, type |-> "", ret |-> 0,
           field |-> NoField, symbol |-> "", out |-> "", rest |-> ""]

Returned(op, any, ret) == [NoCall EXCEPT !.op = op, !.any = any, !.ret = ret]

----------------------------------------------------------------------------
(* n zero bytes: what trill_alloc hands out (memset(ptr, 0, size)) *)
Zeros(n) == [k \in 1..n |-> 0]

(* RefCounted: the arithmetic between a payload pointer and its box *)

ValueOf(i) == boxes[i].addr + SizeofRefCountBox

Values == {ValueOf(i) : i \in DOMAIN boxes}

BoxOf(value) == CHOOSE i \in DOMAIN boxes : boxes[i].addr = value - SizeofRefCountBox

Live(i) == boxes[i].state = "live"

NextBoxAddr ==
  IF boxes = <<>> THEN HeapBase
  ELSE LET last == boxes[Len(boxes)]
       IN last.addr + SizeofRefCountBox + last.size

(* The record of an access to box i: it matters only once the box is freed *)
AfterFree(i, who) == IF Live(i) THEN {} ELSE {who}

NewGhost(deinit) ==
  [hist |-> <<>>, events |-> <<>>, zeroed |-> FALSE, legal |-> TRUE,
   afterFree |-> {}, base |-> 0, deinit |-> deinit]

IdleLocals(t) ==
  /\ pc' = [pc EXCEPT ![t] = "idle"]
  /\ cur' = [cur EXCEPT ![t] = 0]
  /\ prev' = [prev EXCEPT ![t] = 0]

----------------------------------------------------------------------------
(* runtime.cpp: the fatal-error path and the allocator *)

FatalLine(msg, ptr) == [prefix |-> "fatal error: ", msg |-> msg, ptr |-> ptr]

StackTraceLine == [prefix |-> "Current stack trace:", msg |-> "", ptr |-> 0]

trill_fatalError(msg, ptr) ==
  /\ stderr' = stderr \o <<FatalLine(msg, ptr), StackTraceLine>>
  /\ exited' = TRUE

(* trill_init(): the signals whose handler it installs *)
Signals == {"SIGABRT", "SIGSEGV", "SIGILL"}

SIG_DFL == [fn |-> "SIG_DFL"]

(* An activation record of the call stack *)
Frame(fn, pos) == [fn |-> fn, pos |-> pos, msg |-> "", i |-> 0, frames |-> 0]

Running == [kind |-> "running", status |-> 0, sig |-> ""]


malloc_failed == "malloc failed"

----------------------------------------------------------------------------
(* arc.cpp: the atomic counter *)

(* A uint32_t is held as its 32-bit pattern, written as the signed integer  *)
(* with the same bits (the model checker's integers are 32 bits wide):     *)
(* 0 .. 2^31-1 stand for themselves and 2^32-k is written -k.  Adding and  *)
(* subtracting 1 on patterns is arithmetic modulo 2^32.                    *)
INT32_MIN == (0 - INT32_MAX) - 1

(* std::numeric_limits<uint32_t>::max() and ::min() *)
UINT32_MAX == 0 - 1

UINT32_MIN == 0

fetch_sub_lost(count) == count

(* std::atomic<uint32_t>::fetch_add(1) / fetch_sub(1): the stored value *)
fetch_add(count) == IF count = INT32_MAX THEN INT32_MIN ELSE count + 1

fetch_sub(count) == IF count = INT32_MIN THEN INT32_MAX ELSE count - 1

(* box->retainCount > 0, an unsigned comparison *)
above_zero(count) == count # 0

(* What threads inside isUniquelyReferenced on box i have seen the count be *)
Observe(i, count) ==
  [u \in AllThreads |->
     IF pc[u] \in {"iur_load", "iur_ret"} /\ cur[u] = ValueOf(i)
     THEN [one |-> saw[u].one \/ count = 1, other |-> saw[u].other \/ count # 1]
     ELSE saw[u]]

NoSaw == [one |-> FALSE, other |-> FALSE]

RefCounted_countOne(boxPtr, size, deinit) ==
  [addr |-> boxPtr, size |-> size, state |-> "live", retainCount |-> 1,
   deinit |-> deinit, payload |-> Zeros(size)]

(* RefCounted(size, deinit): new (boxPtr) RefCountBox(0, deinit) *)
RefCounted(boxPtr, size, deinit) ==
  [addr |-> boxPtr, size |-> size, state |-> "live", retainCount |-> 0,
   deinit |-> deinit, payload |-> Zeros(size)]

(* trill_allocateIndirectType: RefCounted(size, deinit).value *)
trill_allocateIndirectType(t, size, deinit, mallocOk) ==
  /\ ~exited
  /\ pc[t] = "idle"
  /\ IF ~mallocOk
     THEN /\ trill_fatalError(malloc_failed, NULL)
          /\ UNCHANGED <<boxes, ghost>>
     ELSE /\ Len(boxes) < MaxBoxes
          /\ boxes' = Append(boxes, RefCounted(NextBoxAddr, size, deinit))
          /\ ghost' = Append(ghost, NewGhost(deinit))
          /\ UNCHANGED <<stderr, exited>>
  /\ UNCHANGED <<otherVars, threads, pc, cur, prev, res, saw, deinitLog, lastCall, callsLeft, anys>>

(* retain(): box->retainCount.fetch_add(1) *)
retain_fetch(t, value) ==
  /\ ~exited
  /\ pc[t] = "idle"
  /\ value \in Values
  /\ LET i == BoxOf(value) IN
     /\ IF Live(i)
        THEN /\ prev' = [prev EXCEPT ![t] = boxes[i].retainCount]
             /\ boxes' = [boxes EXCEPT ![i].retainCount = fetch_add(@)]
             /\ ghost' = [ghost EXCEPT ![i].hist = Append(@, "retain"),
                                       ![i].legal = @ /\ ~ghost[i].zeroed]
             /\ saw' = Observe(i, fetch_add(boxes[i].retainCount))
        ELSE /\ \E garbage \in FreedMemoryCounts :
                  prev' = [prev EXCEPT ![t] = garbage]
             /\ ghost' = [ghost EXCEPT ![i].hist = Append(@, "retain"),
                                       ![i].legal = FALSE,
                                       ![i].afterFree = @ \cup {"retain"}]
             /\ UNCHANGED <<boxes, saw>>
  /\ pc' = [pc EXCEPT ![t] = "retain_check"]
  /\ cur' = [cur EXCEPT ![t] = value]
  /\ callsLeft > 0
  /\ callsLeft' = callsLeft - 1
  /\ UNCHANGED <<otherVars, threads, res, deinitLog, stderr, exited, lastCall, anys>>

retain_overflowed_offByOne(p) == p = UINT32_MAX - 1

retain_overflowed(p) == p = UINT32_MAX

(* retain(): if (prev == max) trill_fatalError(...) *)
retain_check(t) ==
  /\ ~exited
  /\ pc[t] = "retain_check"
  /\ IF retain_overflowed(prev[t])
     THEN /\ trill_fatalError("retain count overflowed for ", cur[t])
          /\ UNCHANGED <<pc, cur, prev>>
     ELSE /\ IdleLocals(t)
          /\ UNCHANGED <<stderr, exited>>
  /\ UNCHANGED <<otherVars, threads, boxes, ghost, res, saw, deinitLog, lastCall, callsLeft, anys>>

(* release(): box->retainCount.fetch_sub(1) *)
release_fetch(t, value) ==
  /\ ~exited
  /\ pc[t] = "idle"
  /\ value \in Values
  /\ LET i == BoxOf(value) IN
     /\ IF Live(i)
        THEN /\ prev' = [prev EXCEPT ![t] = boxes[i].retainCount]
             /\ boxes' = [boxes EXCEPT ![i].retainCount = fetch_sub(@)]
             /\ ghost' = [ghost EXCEPT
                            ![i].hist = Append(@, "release"),
                            ![i].legal = @ /\ ~ghost[i].zeroed
                                           /\ boxes[i].retainCount # 0,
                            ![i].zeroed = @ \/ boxes[i].retainCount = 1]
             /\ saw' = Observe(i, fetch_sub(boxes[i].retainCount))
        ELSE /\ \E garbage \in FreedMemoryCounts :
                  prev' = [prev EXCEPT ![t] = garbage]
             /\ ghost' = [ghost EXCEPT ![i].hist = Append(@, "release"),
                                       ![i].legal = FALSE,
                                       ![i].afterFree = @ \cup {"release"}]
             /\ UNCHANGED <<boxes, saw>>
  /\ pc' = [pc EXCEPT ![t] = "release_check"]
  /\ cur' = [cur EXCEPT ![t] = value]
  /\ callsLeft > 0
  /\ callsLeft' = callsLeft - 1
  /\ UNCHANGED <<otherVars, threads, res, deinitLog, stderr, exited, lastCall, anys>>

release_branch_postValue(p) ==
  IF p = 0 THEN "dealloc" ELSE "return"

release_branch_atMostTwo(p) ==
  IF p \in {1, 2} THEN "dealloc"
  ELSE IF p = UINT32_MIN THEN "underflow"
  ELSE "return"

release_branch_noUnderflow(p) ==
  IF p = 1 THEN "dealloc" ELSE "return"

(* release(): which branch the previous value selects *)
release_branch(p) ==
  IF p = 1 THEN "dealloc"
  ELSE IF p = UINT32_MIN THEN "underflow"
  ELSE "return"

(* release(): if (prev == 1) dealloc(); else if (prev == min) fatalError *)
release_check(t) ==
  /\ ~exited
  /\ pc[t] = "release_check"
  /\ LET branch == release_branch(prev[t]) IN
     IF branch = "dealloc"
     THEN /\ pc' = [pc EXCEPT ![t] = "dealloc_check"]
          /\ UNCHANGED <<cur, prev, stderr, exited>>
     ELSE IF branch = "underflow"
     THEN /\ trill_fatalError("retain count underflowed for ", cur[t])
          /\ UNCHANGED <<pc, cur, prev>>
     ELSE /\ IdleLocals(t)
          /\ UNCHANGED <<stderr, exited>>
  /\ UNCHANGED <<otherVars, threads, boxes, ghost, res, saw, deinitLog, lastCall, callsLeft, anys>>

(* dealloc(): if (box->retainCount > 0) trill_fatalError(...) *)
dealloc_check(t) ==
  /\ ~exited
  /\ pc[t] = "dealloc_check"
  /\ LET i == BoxOf(cur[t]) IN
     \E count \in (IF Live(i) THEN {boxes[i].retainCount} ELSE FreedMemoryCounts) :
       /\ ghost' = [ghost EXCEPT ![i].afterFree = @ \cup AfterFree(i, "dealloc")]
       /\ IF above_zero(count)
          THEN /\ trill_fatalError("object deallocated with retain count > 0", NULL)
               /\ UNCHANGED pc
          ELSE /\ pc' = [pc EXCEPT ![t] = "dealloc_deinit"]
               /\ UNCHANGED <<stderr, exited>>
  /\ UNCHANGED <<otherVars, threads, boxes, cur, prev, res, saw, deinitLog, lastCall, callsLeft, anys>>

has_deinit_never(deinit) == FALSE

has_deinit_always(deinit) == TRUE

(* dealloc(): box->deinit != nullptr *)
has_deinit(deinit) == deinit # NULL

(* dealloc(): if (box->deinit != nullptr) box->deinit(value) *)
dealloc_deinit(t) ==
  /\ ~exited
  /\ pc[t] = "dealloc_deinit"
  /\ LET i == BoxOf(cur[t]) IN
     \E deinit \in (IF Live(i) THEN {boxes[i].deinit} ELSE Deinitializers) :
       IF has_deinit(deinit)
       THEN /\ deinitLog' = Append(deinitLog, cur[t])
            /\ ghost' = [ghost EXCEPT
                           ![i].events = Append(@, [ev |-> "deinit", arg |-> cur[t]]),
                           ![i].afterFree = @ \cup AfterFree(i, "dealloc")]
       ELSE /\ ghost' = [ghost EXCEPT ![i].afterFree = @ \cup AfterFree(i, "dealloc")]
            /\ UNCHANGED deinitLog
  /\ pc' = [pc EXCEPT ![t] = "dealloc_free"]
  /\ UNCHANGED <<otherVars, threads, boxes, cur, prev, res, saw, stderr, exited, lastCall, callsLeft, anys>>

(* dealloc(): free(box), after which release() returns *)
dealloc_free(t) ==
  /\ ~exited
  /\ pc[t] = "dealloc_free"
  /\ LET i == BoxOf(cur[t]) IN
     /\ boxes' = [boxes EXCEPT ![i].state = "freed"]
     /\ ghost' = [ghost EXCEPT
                    ![i].events = Append(@, [ev |-> "free", arg |-> boxes[i].addr]),
                    ![i].afterFree = @ \cup AfterFree(i, "dealloc")]
  /\ IdleLocals(t)
  /\ UNCHANGED <<otherVars, threads, res, saw, deinitLog, stderr, exited, lastCall, callsLeft, anys>>

(* trill_isUniquelyReferenced is entered *)
isUniquelyReferenced_call(t, value) ==
  /\ ~exited
  /\ pc[t] = "idle"
  /\ value \in Values
  /\ pc' = [pc EXCEPT ![t] = "iur_load"]
  /\ cur' = [cur EXCEPT ![t] = value]
  /\ LET i == BoxOf(value) IN
     /\ saw' = [saw EXCEPT ![t] =
                  IF Live(i)
                  THEN [one |-> boxes[i].retainCount = 1,
                        other |-> boxes[i].retainCount # 1]
                  ELSE NoSaw]
  /\ callsLeft > 0
  /\ callsLeft' = callsLeft - 1
  /\ UNCHANGED <<otherVars, threads, boxes, ghost, prev, res, deinitLog, stderr, exited,
                 lastCall, anys>>

uniquely_orZero(count) == count \in {0, 1}

uniquely(count) == count = 1

(* isUniquelyReferenced(): return box->retainCount == 1 (an atomic load) *)
isUniquelyReferenced_load(t) ==
  /\ ~exited
  /\ pc[t] = "iur_load"
  /\ LET i == BoxOf(cur[t]) IN
     \E count \in (IF Live(i) THEN {boxes[i].retainCount} ELSE FreedMemoryCounts) :
       /\ res' = [res EXCEPT ![t] = uniquely(count)]
       /\ ghost' = [ghost EXCEPT
                      ![i].afterFree = @ \cup AfterFree(i, "isUniquelyReferenced"),
                      ![i].legal = @ /\ Live(i) /\ ~ghost[i].zeroed]
  /\ pc' = [pc EXCEPT ![t] = "iur_ret"]
  /\ UNCHANGED <<otherVars, threads, boxes, cur, prev, saw, deinitLog, stderr, exited,
                 lastCall, callsLeft, anys>>

(* trill_isUniquelyReferenced returns: refCounted.isUniquelyReferenced() ? 1 : 0 *)
isUniquelyReferenced_return(t) ==
  /\ ~exited
  /\ pc[t] = "iur_ret"
  /\ IdleLocals(t)
  /\ res' = [res EXCEPT ![t] = FALSE]
  /\ saw' = [saw EXCEPT ![t] = NoSaw]
  /\ UNCHANGED <<otherVars, threads, boxes, ghost, deinitLog, stderr, exited, lastCall, callsLeft, anys>>

----------------------------------------------------------------------------
(* The program: every thread may call any ARC entry point on any box *)

(* The once flag is zero-initialized and the initializer has not run *)
InitOther ==
  /\ predicate = 0
  /\ initialized = <<>>
  /\ stack = <<Frame("main", "trill_init")>>
  /\ handlers = [s \in Signals |-> SIG_DFL]
  /\ blocked = {}
  /\ executed = <<>>
  /\ exitStatus = Running
  /\ generics = <<>>

InitThreads(ts) ==
  /\ threads = ts
  /\ pc = [t \in AllThreads |-> "idle"]
  /\ cur = [t \in AllThreads |-> 0]
  /\ prev = [t \in AllThreads |-> 0]
  /\ res = [t \in AllThreads |-> FALSE]
  /\ saw = [t \in AllThreads |-> NoSaw]
  /\ deinitLog = <<>>
  /\ stderr = <<>>
  /\ exited = FALSE
  /\ lastCall = NoCall
  /\ anys = <<>>
  /\ InitOther

(* The program as one thread runs it, from an empty heap *)
Init ==
  /\ InitThreads({1})
  /\ callsLeft = MaxCalls
  /\ boxes = <<>>
  /\ ghost = <<>>

Allocate ==
  \E t \in threads, size \in PayloadSizes, deinit \in Deinitializers,
     mallocOk \in BOOLEAN :
    trill_allocateIndirectType(t, size, deinit, mallocOk)

Retain == \E t \in threads : (\E value \in Values : retain_fetch(t, value))

RetainCheck == \E t \in threads : retain_check(t)

Release == \E t \in threads : (\E value \in Values : release_fetch(t, value))

ReleaseCheck == \E t \in threads : release_check(t)

DeallocCheck == \E t \in threads : dealloc_check(t)

DeallocDeinit == \E t \in threads : dealloc_deinit(t)

DeallocFree == \E t \in threads : dealloc_free(t)

IsUniquelyReferencedCall ==
  \E t \in threads : (\E value \in Values : isUniquelyReferenced_call(t, value))

IsUniquelyReferencedLoad == \E t \in threads : isUniquelyReferenced_load(t)

IsUniquelyReferencedReturn == \E t \in threads : isUniquelyReferenced_return(t)

Next ==
  \/ Allocate
  \/ Retain
  \/ RetainCheck
  \/ Release
  \/ ReleaseCheck
  \/ DeallocCheck
  \/ DeallocDeinit
  \/ DeallocFree
  \/ IsUniquelyReferencedCall
  \/ IsUniquelyReferencedLoad
  \/ IsUniquelyReferencedReturn

Spec == Init /\ [][Next]_vars

(* NThreads threads sharing one box that has been retained c times *)
InitConc ==
  /\ InitThreads(AllThreads)
  /\ callsLeft = MaxConcCalls
  /\ \E size \in PayloadSizes, deinit \in Deinitializers, c \in 0..NThreads :
       /\ boxes = <<[RefCounted(HeapBase, size, deinit) EXCEPT !.retainCount = c]>>
       /\ ghost = <<[NewGhost(deinit) EXCEPT !.base = c]>>

NextConc ==
  \/ Retain
  \/ RetainCheck
  \/ Release
  \/ ReleaseCheck
  \/ DeallocCheck
  \/ DeallocDeinit
  \/ DeallocFree
  \/ IsUniquelyReferencedCall
  \/ IsUniquelyReferencedLoad
  \/ IsUniquelyReferencedReturn

SpecConc == InitConc /\ [][NextConc]_vars

(* One thread and a box whose count is at, or one below, the counter's maximum *)
InitMax ==
  /\ InitThreads({1})
  /\ callsLeft = MaxCalls
  /\ \E size \in PayloadSizes, deinit \in Deinitializers,
        c \in {UINT32_MAX - 1, UINT32_MAX} :
       /\ boxes = <<[RefCounted(HeapBase, size, deinit) EXCEPT !.retainCount = c]>>
       /\ ghost = <<[NewGhost(deinit) EXCEPT !.base = c]>>

SpecMax == InitMax /\ [][Next]_vars

----------------------------------------------------------------------------
(* metadata_private.h: type descriptors, read-only data of the program.    *)
(* A descriptor is named by its identity (its address in the image); two   *)
(* descriptors are the same pointer iff they have the same identity.       *)

TypeIds == {"Int8", "Pair", "Node", "*Int8"}

(* Every descriptor of the image: "Int8@other" is a second descriptor that *)
(* carries the name Int8 (no value of it is boxed)                         *)
AllTypeIds == TypeIds \cup {"Int8@other"}

FieldMetadata(name, typeMetadata, offset) ==
  [name |-> name, typeMetadata |-> typeMetadata, offset |-> offset]

TypeMetadata(id) ==
  CASE id = "Int8" ->
         [name |-> "Int8", fields |-> <<>>, isReferenceType |-> 0,
          sizeInBits |-> 8, fieldCount |-> 0, pointerLevel |-> 0]
    [] id = "Pair" ->
         [name |-> "Pair",
          fields |-> <<FieldMetadata("a", "Int8", 0), FieldMetadata("b", "Int8", 1)>>,
          isReferenceType |-> 0, sizeInBits |-> 16, fieldCount |-> 2,
          pointerLevel |-> 0]
    [] id = "Node" ->
         [name |-> "Node", fields |-> <<FieldMetadata("v", "Int8", 0)>>,
          isReferenceType |-> 1, sizeInBits |-> 64, fieldCount |-> 1,
          pointerLevel |-> 0]
    [] id = "*Int8" ->
         [name |-> "*Int8", fields |-> <<>>, isReferenceType |-> 0,
          sizeInBits |-> 64, fieldCount |-> 0, pointerLevel |-> 1]
    [] id = "Int8@other" ->
         [name |-> "Int8", fields |-> <<>>, isReferenceType |-> 0,
          sizeInBits |-> 8, fieldCount |-> 0, pointerLevel |-> 0]

(* TypeMetadata::sizeInBytes *)
sizeInBytes(typeMetadata) == typeMetadata.sizeInBits \div 8

----------------------------------------------------------------------------
(* Memory as bytes *)

(* The k-th byte (from 1, little-endian) of a pointer; addresses are < 2^24 *)
PointerByte(p, k) ==
  IF k = 1 THEN p % 256
  ELSE IF k = 2 THEN (p \div 256) % 256
  ELSE IF k = 3 THEN (p \div 65536) % 256
  ELSE 0

PointerBytes(p) == [k \in 1..PointerSize |-> PointerByte(p, k)]

(* memcpy(dst, src, n) on two buffers of at least n bytes: the new dst *)
memcpy(dst, src, n) == [k \in 1..Len(dst) |-> IF k <= n THEN src[k] ELSE dst[k]]

----------------------------------------------------------------------------
(* metadata.cpp: the Any box *)

AnyPtrs == {anys[k].addr : k \in DOMAIN anys}

AnyAt(ptr) == CHOOSE k \in DOMAIN anys : anys[k].addr = ptr

NextAnyAddr ==
  IF anys = <<>> THEN AnyHeapBase
  ELSE LET last == anys[Len(anys)]
       IN last.addr + SizeofAnyBox + Len(last.payload)

(* trill_getAnyValuePtr: any + sizeof(AnyBox) *)
trill_getAnyValuePtr(any) == any + SizeofAnyBox

(* trill_assert(x) when x is false: the assertion names the expression *)
trill_assertionFailure(expr) == trill_fatalError(expr, NULL)

(* trill_allocateAny: the box trill_alloc(sizeof(AnyBox) + sizeInBits)     *)
(* returns, zero-filled, with its typeMetadata set                         *)
AnyBox(addr, typeMeta) ==
  [addr |-> addr, typeMetadata |-> typeMeta,
   payload |-> Zeros(TypeMetadata(typeMeta).sizeInBits)]

trill_allocateAny(typeMeta, mallocOk) ==
  /\ ~exited
  /\ IF ~mallocOk
     THEN /\ trill_fatalError(malloc_failed, NULL)
          /\ lastCall' = [Returned("allocateAny", NULL, NULL) EXCEPT !.type = typeMeta]
          /\ UNCHANGED anys
     ELSE /\ Len(anys) < MaxAnys
          /\ anys' = Append(anys, AnyBox(NextAnyAddr, typeMeta))
          /\ lastCall' = [Returned("allocateAny", NULL, NextAnyAddr) EXCEPT !.type = typeMeta]
          /\ UNCHANGED <<stderr, exited>>
  /\ UNCHANGED <<otherVars, threads, boxes, ghost, pc, cur, prev, res, saw, deinitLog, callsLeft>>

(* What generated code stores through trill_getAnyValuePtr: a value of the *)
(* box's type, sizeInBytes bytes long                                      *)
ValuesOfType(typeMeta) ==
  CASE typeMeta = "Int8" -> {<<5>>}
    [] typeMeta = "Pair" -> {<<3, 5>>, <<0, 7>>}
    [] typeMeta = "Node" -> {PointerBytes(NULL)} \cup {PointerBytes(v) : v \in Values}
    [] typeMeta = "*Int8" -> {PointerBytes(NULL), PointerBytes(HeapBase)}

storeAnyValue(any, bytes) ==
  /\ ~exited
  /\ any \in AnyPtrs
  /\ bytes \in ValuesOfType(anys[AnyAt(any)].typeMetadata)
  /\ anys' = [anys EXCEPT ![AnyAt(any)].payload = memcpy(@, bytes, Len(bytes))]
  /\ lastCall' = Returned("store", any, trill_getAnyValuePtr(any))
  /\ UNCHANGED <<otherVars, threads, boxes, ghost, pc, cur, prev, res, saw, deinitLog, stderr,
                 exited, callsLeft>>

copies_by_reference_never(typeMetadata) == FALSE

copies_by_reference_always(typeMetadata) == TRUE

(* trill_copyAny: if (typeMetadata->isReferenceType) { return any; } *)
copies_by_reference(typeMetadata) == typeMetadata.isReferenceType # 0

trill_copyAny(any, mallocOk) ==
  /\ ~exited
  /\ IF any = NULL
     THEN /\ trill_assertionFailure("_any != nullptr && \"passed a null value for Any\"")
          /\ lastCall' = Returned("copyAny", any, NULL)
          /\ UNCHANGED anys
     ELSE LET ptr == anys[AnyAt(any)]
              typeMetadata == TypeMetadata(ptr.typeMetadata)
          IN IF copies_by_reference(typeMetadata)
             THEN /\ lastCall' = Returned("copyAny", any, any)
                  /\ UNCHANGED <<anys, stderr, exited>>
             ELSE IF ~mallocOk
             THEN /\ trill_fatalError(malloc_failed, NULL)
                  /\ lastCall' = Returned("copyAny", any, NULL)
                  /\ UNCHANGED anys
             ELSE /\ Len(anys) < MaxAnys
                  /\ anys' = Append(anys,
                       [AnyBox(NextAnyAddr, ptr.typeMetadata) EXCEPT
                          !.payload = memcpy(@, ptr.payload, typeMetadata.sizeInBits)])
                  /\ lastCall' = Returned("copyAny", any, NextAnyAddr)
                  /\ UNCHANGED <<stderr, exited>>
  /\ UNCHANGED <<otherVars, threads, boxes, ghost, pc, cur, prev, res, saw, deinitLog, callsLeft>>

----------------------------------------------------------------------------
(* Memory as the Any operations see it: the payloads of the Any boxes and  *)
(* the payloads of the ARC boxes, each at its address                      *)

AnyPayloadAt(q) ==
  CHOOSE k \in DOMAIN anys :
    /\ trill_getAnyValuePtr(anys[k].addr) <= q
    /\ q < trill_getAnyValuePtr(anys[k].addr) + Len(anys[k].payload)

InAnyPayload(q) ==
  \E k \in DOMAIN anys :
    /\ trill_getAnyValuePtr(anys[k].addr) <= q
    /\ q < trill_getAnyValuePtr(anys[k].addr) + Len(anys[k].payload)

BoxPayloadAt(q) ==
  CHOOSE i \in DOMAIN boxes : ValueOf(i) <= q /\ q < ValueOf(i) + boxes[i].size

ByteAt(q) ==
  IF InAnyPayload(q)
  THEN anys[AnyPayloadAt(q)].payload[q - trill_getAnyValuePtr(anys[AnyPayloadAt(q)].addr) + 1]
  ELSE boxes[BoxPayloadAt(q)].payload[q - ValueOf(BoxPayloadAt(q)) + 1]

(* The n bytes at p .. p+n-1 *)
ReadBytes(p, n) == [j \in 1..n |-> ByteAt(p + j - 1)]

(* A buffer at address base after bytes were written at p *)
Overwritten(buffer, base, p, bytes) ==
  [j \in 1..Len(buffer) |->
     LET q == base + j - 1
     IN IF p <= q /\ q < p + Len(bytes) THEN bytes[q - p + 1] ELSE buffer[j]]

AnysAfterWrite(p, bytes) ==
  [k \in DOMAIN anys |->
     [anys[k] EXCEPT
        !.payload = Overwritten(@, trill_getAnyValuePtr(anys[k].addr), p, bytes)]]

BoxesAfterWrite(p, bytes) ==
  [i \in DOMAIN boxes |->
     [boxes[i] EXCEPT !.payload = Overwritten(@, ValueOf(i), p, bytes)]]

(* The pointer stored (little-endian) in the first word of a buffer *)
PointerIn(bytes) == bytes[1] + 256 * bytes[2] + 65536 * bytes[3]

----------------------------------------------------------------------------
(* Field descriptors: trill_getFieldMetadata (Sources/Runtime/metadata.cpp) *)
(* and TypeMetadata::fieldMetadata (runtime/src/Metadata.cpp)              *)

(* if (real->fieldCount <= field) *)
field_out_of_bounds(typeMetadata, field) == typeMetadata.fieldCount <= field

(* &(real->fields[field]) *)
FieldOf(typeMetadata, field) == typeMetadata.fields[field + 1]

field_index_out_of_bounds == "field index out of bounds"

FieldCall(op, typeMeta, field) ==
  [NoCall EXCEPT !.op = op, !.type = typeMeta, !.idx = field]

trill_getFieldMetadata(typeMeta, field) ==
  /\ ~exited
  /\ IF field_out_of_bounds(TypeMetadata(typeMeta), field)
     THEN /\ trill_fatalError(field_index_out_of_bounds, NULL)
          /\ lastCall' = FieldCall("getFieldMetadata", typeMeta, field)
     ELSE /\ lastCall' = [FieldCall("getFieldMetadata", typeMeta, field) EXCEPT
                            !.field = FieldOf(TypeMetadata(typeMeta), field)]
          /\ UNCHANGED <<stderr, exited>>
  /\ UNCHANGED <<otherVars, threads, boxes, ghost, pc, cur, prev, res, saw, deinitLog, callsLeft,
                 anys>>

(* msg << "field index " << index << " out of bounds for type " << name    *)
(*     << " with " << fieldCount << " fields"                              *)
OutOfBoundsMessage(index, name, fieldCount) ==
  "field index " \o ToString(index) \o " out of bounds for type " \o name
    \o " with " \o ToString(fieldCount) \o " fields"

TypeMetadata_fieldMetadata(typeMeta, index) ==
  /\ ~exited
  /\ LET this == TypeMetadata(typeMeta) IN
     IF field_out_of_bounds(this, index)
     THEN /\ trill_fatalError(OutOfBoundsMessage(index, this.name, this.fieldCount), NULL)
          /\ lastCall' = FieldCall("fieldMetadata", typeMeta, index)
     ELSE /\ lastCall' = [FieldCall("fieldMetadata", typeMeta, index) EXCEPT
                            !.field = FieldOf(this, index)]
          /\ UNCHANGED <<stderr, exited>>
  /\ UNCHANGED <<otherVars, threads, boxes, ghost, pc, cur, prev, res, saw, deinitLog, callsLeft,
                 anys>>

----------------------------------------------------------------------------
(* metadata.cpp: the fields of an Any *)

NullAnyAssert == "_any != nullptr && \"passed a null value for Any\""

FieldRangeAssert == "fieldNum < meta->fieldCount"

NullObjectAssert == "origPtr != nullptr"

TypeOfAny(any) == anys[AnyAt(any)].typeMetadata

(* trill_getAnyFieldMetadata: trill_assert(fieldNum < meta->fieldCount) *)
field_in_range(meta, fieldNum) == fieldNum < meta.fieldCount

(* The base without the dereference *)
FieldBase_noDereference(any) == trill_getAnyValuePtr(any)

(* trill_getAnyFieldValuePtr: origPtr, dereferenced once for a reference type *)
FieldBase(any) ==
  IF TypeMetadata(TypeOfAny(any)).isReferenceType # 0
  THEN PointerIn(anys[AnyAt(any)].payload)
  ELSE trill_getAnyValuePtr(any)

(* trill_getAnyFieldValuePtr: trill_assert(origPtr != nullptr) fails *)
NullObject(any) == FieldBase(any) = NULL

(* trill_getAnyFieldValuePtr: origPtr + fieldMeta->offset *)
FieldValuePtr(any, fieldNum) ==
  FieldBase(any) + FieldOf(TypeMetadata(TypeOfAny(any)), fieldNum).offset

AnyCall(op, any, fieldNum, newAny) ==
  [NoCall EXCEPT !.op = op, !.any = any, !.idx = fieldNum, !.arg = newAny]

trill_getAnyFieldValuePtr(any, fieldNum) ==
  /\ ~exited
  /\ LET call == AnyCall("getAnyFieldValuePtr", any, fieldNum, NULL) IN
     IF any = NULL
     THEN trill_assertionFailure(NullAnyAssert) /\ lastCall' = call
     ELSE IF ~field_in_range(TypeMetadata(TypeOfAny(any)), fieldNum)
     THEN trill_assertionFailure(FieldRangeAssert) /\ lastCall' = call
     ELSE IF NullObject(any)
     THEN trill_assertionFailure(NullObjectAssert) /\ lastCall' = call
     ELSE /\ lastCall' = [call EXCEPT !.ret = FieldValuePtr(any, fieldNum)]
          /\ UNCHANGED <<stderr, exited>>
  /\ UNCHANGED <<otherVars, threads, boxes, ghost, pc, cur, prev, res, saw, deinitLog, callsLeft,
                 anys>>

(* trill_reportCastError *)
CastMessage(anyName, typeName) ==
  "checked cast failed: cannot convert " \o anyName \o " to " \o typeName

trill_reportCastError(anyMetadata, typeMetadata) ==
  trill_fatalError(CastMessage(TypeMetadata(anyMetadata).name,
                               TypeMetadata(typeMetadata).name), NULL)

extract_source_base(any, fieldNum) == trill_getAnyValuePtr(any)

(* trill_extractAnyField: anyFieldValuePointer *)
extract_source(any, fieldNum) == FieldValuePtr(any, fieldNum)

(* trill_extractAnyField: memcpy(fieldPtr, anyFieldValuePointer, sizeInBits) *)
extract_count(fieldTypeMeta) == fieldTypeMeta.sizeInBits

trill_extractAnyField(any, fieldNum, mallocOk) ==
  /\ ~exited
  /\ LET call == AnyCall("extractAnyField", any, fieldNum, NULL) IN
     IF any = NULL
     THEN /\ trill_assertionFailure(NullAnyAssert)
          /\ lastCall' = call
          /\ UNCHANGED anys
     ELSE IF ~field_in_range(TypeMetadata(TypeOfAny(any)), fieldNum)
     THEN /\ trill_assertionFailure(FieldRangeAssert)
          /\ lastCall' = call
          /\ UNCHANGED anys
     ELSE LET fieldTypeMeta == FieldOf(TypeMetadata(TypeOfAny(any)), fieldNum).typeMetadata
              count == extract_count(TypeMetadata(fieldTypeMeta))
          IN IF ~mallocOk
             THEN /\ trill_fatalError(malloc_failed, NULL)
                  /\ lastCall' = call
                  /\ UNCHANGED anys
             ELSE /\ Len(anys) < MaxAnys
                  /\ IF NullObject(any)
                     THEN /\ anys' = Append(anys, AnyBox(NextAnyAddr, fieldTypeMeta))
                          /\ trill_assertionFailure(NullObjectAssert)
                          /\ lastCall' = call
                     ELSE /\ anys' = Append(anys,
                               [AnyBox(NextAnyAddr, fieldTypeMeta) EXCEPT
                                  !.payload = memcpy(@,
                                     ReadBytes(extract_source(any, fieldNum), count),
                                     count)])
                          /\ lastCall' = [call EXCEPT !.ret = NextAnyAddr]
                          /\ UNCHANGED <<stderr, exited>>
  /\ UNCHANGED <<otherVars, threads, boxes, ghost, pc, cur, prev, res, saw, deinitLog, callsLeft>>

(* trill_updateAny: memcpy(fieldPtr, newPtr, newType->sizeInBits) *)
update_count(newType) == newType.sizeInBits

field_type_differs_never(fieldMeta, newType) == FALSE

(* trill_updateAny: if (fieldMeta->typeMetadata != newType) *)
field_type_differs(fieldMeta, newType) == fieldMeta.typeMetadata # newType

trill_updateAny(any, fieldNum, newAny) ==
  /\ ~exited
  /\ LET call == AnyCall("updateAny", any, fieldNum, newAny) IN
     IF any = NULL \/ newAny = NULL
     THEN /\ trill_assertionFailure(NullAnyAssert)
          /\ lastCall' = call
          /\ UNCHANGED <<anys, boxes>>
     ELSE IF ~field_in_range(TypeMetadata(TypeOfAny(any)), fieldNum)
     THEN /\ trill_assertionFailure(FieldRangeAssert)
          /\ lastCall' = call
          /\ UNCHANGED <<anys, boxes>>
     ELSE LET newType == TypeOfAny(newAny)
              fieldMeta == FieldOf(TypeMetadata(TypeOfAny(any)), fieldNum)
          IN IF field_type_differs(fieldMeta, newType)
             THEN /\ trill_reportCastError(fieldMeta.typeMetadata, newType)
                  /\ lastCall' = call
                  /\ UNCHANGED <<anys, boxes>>
             ELSE IF NullObject(any)
             THEN /\ trill_assertionFailure(NullObjectAssert)
                  /\ lastCall' = call
                  /\ UNCHANGED <<anys, boxes>>
             ELSE LET fieldPtr == FieldValuePtr(any, fieldNum)
                      bytes == ReadBytes(trill_getAnyValuePtr(newAny),
                                         update_count(TypeMetadata(newType)))
                  IN /\ anys' = AnysAfterWrite(fieldPtr, bytes)
                     /\ boxes' = BoxesAfterWrite(fieldPtr, bytes)
                     /\ lastCall' = call
                     /\ UNCHANGED <<stderr, exited>>
  /\ UNCHANGED <<otherVars, threads, ghost, pc, cur, prev, res, saw, deinitLog, callsLeft>>

----------------------------------------------------------------------------
(* metadata.cpp: dynamic type check, checked cast and nil test *)

TypeCall(op, any, typeMeta) == [NoCall EXCEPT !.op = op, !.any = any, !.type = typeMeta]

(* trill_checkTypes: return anyMetadata == typeMetadata (a uint8_t) *)
checkTypes(any, typeMetadata) == IF TypeOfAny(any) = typeMetadata THEN 1 ELSE 0

trill_checkTypes(any, typeMetadata) ==
  /\ ~exited
  /\ IF any = NULL
     THEN /\ trill_assertionFailure(NullAnyAssert)
          /\ lastCall' = TypeCall("checkTypes", any, typeMetadata)
     ELSE /\ lastCall' = [TypeCall("checkTypes", any, typeMetadata) EXCEPT
                            !.ret = checkTypes(any, typeMetadata)]
          /\ UNCHANGED <<stderr, exited>>
  /\ UNCHANGED <<otherVars, threads, boxes, ghost, pc, cur, prev, res, saw, deinitLog, callsLeft,
                 anys>>

cast_mismatch_byName(anyMetadata, typeMetadata) ==
  TypeMetadata(anyMetadata).name # TypeMetadata(typeMetadata).name

(* trill_checkedCast: if (anyMetadata != typeMetadata) *)
cast_mismatch(anyMetadata, typeMetadata) == anyMetadata # typeMetadata

trill_checkedCast(any, typeMetadata) ==
  /\ ~exited
  /\ IF any = NULL
     THEN /\ trill_assertionFailure(NullAnyAssert)
          /\ lastCall' = TypeCall("checkedCast", any, typeMetadata)
     ELSE IF cast_mismatch(TypeOfAny(any), typeMetadata)
     THEN /\ trill_reportCastError(TypeOfAny(any), typeMetadata)
          /\ lastCall' = TypeCall("checkedCast", any, typeMetadata)
     ELSE /\ lastCall' = [TypeCall("checkedCast", any, typeMetadata) EXCEPT
                            !.ret = trill_getAnyValuePtr(any)]
          /\ UNCHANGED <<stderr, exited>>
  /\ UNCHANGED <<otherVars, threads, boxes, ghost, pc, cur, prev, res, saw, deinitLog, callsLeft,
                 anys>>

nil_skips_pointer_never(pointerLevel) == FALSE

(* trill_anyIsNil: if (pointerLevel > 0) { return 0; } *)
nil_skips_pointer(pointerLevel) == pointerLevel > 0

(* trill_anyIsNil: *reinterpret_cast<uintptr_t *>(trill_getAnyValuePtr(any_)) == 0 *)
FirstWordIsZero(any) ==
  \A j \in 1..PointerSize : ReadBytes(trill_getAnyValuePtr(any), PointerSize)[j] = 0

trill_anyIsNil(any) ==
  /\ ~exited
  /\ IF any = NULL
     THEN /\ trill_assertionFailure(NullAnyAssert)
          /\ lastCall' = Returned("anyIsNil", any, 0)
     ELSE /\ lastCall' = Returned("anyIsNil", any,
               IF nil_skips_pointer(TypeMetadata(TypeOfAny(any)).pointerLevel) THEN 0
               ELSE IF FirstWordIsZero(any) THEN 1
               ELSE 0)
          /\ UNCHANGED <<stderr, exited>>
  /\ UNCHANGED <<otherVars, threads, boxes, ghost, pc, cur, prev, res, saw, deinitLog, callsLeft,
                 anys>>

(* A single-threaded program using Any boxes, with one Node object on the  *)
(* ARC heap that has been retained once                                    *)
InitAny ==
  /\ InitThreads({1})
  /\ callsLeft = 0
  /\ \E deinit \in Deinitializers :
       /\ boxes = <<[RefCounted(HeapBase, PointerSize, deinit) EXCEPT !.retainCount = 1]>>
       /\ ghost = <<[NewGhost(deinit) EXCEPT !.base = 1]>>

AllocateAny ==
  \E typeMeta \in TypeIds, mallocOk \in BOOLEAN : trill_allocateAny(typeMeta, mallocOk)

StoreAnyValue ==
  \E any \in AnyPtrs :
    \E bytes \in ValuesOfType(anys[AnyAt(any)].typeMetadata) : storeAnyValue(any, bytes)

CopyAny ==
  \E any \in AnyPtrs \cup {NULL}, mallocOk \in BOOLEAN : trill_copyAny(any, mallocOk)

NextAny ==
  \/ AllocateAny
  \/ StoreAnyValue
  \/ CopyAny

SpecAny == InitAny /\ [][NextAny]_vars

(* A program that reads and writes the fields of its Any boxes (at most    *)
(* MaxFieldAnys of them); the Node object's field holds 0 or 9             *)
MaxFieldIndex == 2

MaxFieldAnys == 2

FieldIndexes == 0..MaxFieldIndex

ObjectPayloads == {Zeros(PointerSize), [Zeros(PointerSize) EXCEPT ![1] = 9]}

InitField ==
  /\ InitThreads({1})
  /\ callsLeft = 0
  /\ \E deinit \in {LogDeinit}, object \in ObjectPayloads :
       /\ boxes = <<[RefCounted(HeapBase, PointerSize, deinit) EXCEPT
                       !.retainCount = 1, !.payload = object]>>
       /\ ghost = <<[NewGhost(deinit) EXCEPT !.base = 1]>>

GetFieldMetadata ==
  \E typeMeta \in TypeIds, field \in FieldIndexes : trill_getFieldMetadata(typeMeta, field)

FieldMetadataOf ==
  \E typeMeta \in TypeIds, index \in FieldIndexes :
    TypeMetadata_fieldMetadata(typeMeta, index)

GetAnyFieldValuePtr ==
  \E any \in AnyPtrs \cup {NULL}, fieldNum \in FieldIndexes :
    trill_getAnyFieldValuePtr(any, fieldNum)

ExtractAnyField ==
  \E any \in AnyPtrs, fieldNum \in FieldIndexes, mallocOk \in BOOLEAN :
    /\ Len(anys) < MaxFieldAnys
    /\ trill_extractAnyField(any, fieldNum, mallocOk)

UpdateAny ==
  \E any \in AnyPtrs, fieldNum \in FieldIndexes, newAny \in AnyPtrs :
    trill_updateAny(any, fieldNum, newAny)

AllocateFieldAny ==
  /\ Len(anys) < MaxFieldAnys
  /\ AllocateAny

NextField ==
  \/ AllocateFieldAny
  \/ StoreAnyValue
  \/ ExtractAnyField
  \/ UpdateAny

SpecField == InitField /\ [][NextField]_vars

(* A program that looks up field descriptors and field addresses *)
NextFieldMeta ==
  \/ AllocateFieldAny
  \/ StoreAnyValue
  \/ GetFieldMetadata
  \/ FieldMetadataOf
  \/ GetAnyFieldValuePtr

SpecFieldMeta == InitField /\ [][NextFieldMeta]_vars

(* A program that inspects its Any boxes: type check, cast, nil test *)
CheckTypes ==
  \E any \in AnyPtrs \cup {NULL}, typeMetadata \in AllTypeIds :
    trill_checkTypes(any, typeMetadata)

CheckedCast ==
  \E any \in AnyPtrs \cup {NULL}, typeMetadata \in AllTypeIds :
    trill_checkedCast(any, typeMetadata)

AnyIsNil == \E any \in AnyPtrs \cup {NULL} : trill_anyIsNil(any)

NextQuery ==
  \/ AllocateFieldAny
  \/ StoreAnyValue
  \/ CheckTypes
  \/ CheckedCast
  \/ AnyIsNil

SpecQuery == InitField /\ [][NextQuery]_vars

----------------------------------------------------------------------------
(* The demangler (demangle.cpp).  A std::string is a TLA+ string; every    *)
(* reader takes the remaining input `str` and the text built so far `out`  *)
(* (both passed by reference in the code) and yields what they are when it *)
(* returns, with the way it returned:                                      *)
(*   "ok"    it returned true                                              *)
(*   "fail"  it returned false                                             *)
(*   "abort" the process was stopped inside it                             *)

(* How the runtime was built: with or without the standard library's       *)
(* precondition checks (front() of an empty string is undefined: an        *)
(* unchecked build reads the terminating null character, a checked build   *)
(* stops the process); with or without NDEBUG (assert compiled out or not) *)
Builds == [checked : BOOLEAN, NDEBUG : BOOLEAN]

Ok(str, out) == [status |-> "ok", str |-> str, out |-> out]
Fail(str, out) == [status |-> "fail", str |-> str, out |-> out]
Abort(str, out) == [status |-> "abort", str |-> str, out |-> out]

(* std::string::erase(0, n) *)
erase(str, n) == SubSeq(str, n + 1, Len(str))

(* std::string::substr(0, n): at most n characters *)
substr(str, n) == SubSeq(str, 1, IF n < Len(str) THEN n ELSE Len(str))

(* The terminating null character: it equals no character of a symbol *)
NUL == ""

(* std::string::front(), and the case in which calling it stops a checked  *)
(* build                                                                   *)
front(str) == IF str = "" THEN NUL ELSE Head(str)
front_traps(build, str) == build.checked /\ str = ""

(* strtol(start, &end, 10): leading white space, an optional sign, then    *)
(* digits; `len` is end - start, 0 when there is no digit to convert.      *)
(* (The symbols of the model carry numbers that fit an int.)               *)
strtol(str) ==
  LET isdigit(c) == c \in {"0", "1", "2", "3", "4", "5", "6", "7", "8", "9"}
      isspace(c) == c = " "
      DigitValue(c) ==
        CASE c = "0" -> 0 [] c = "1" -> 1 [] c = "2" -> 2 [] c = "3" -> 3
          [] c = "4" -> 4 [] c = "5" -> 5 [] c = "6" -> 6 [] c = "7" -> 7
          [] c = "8" -> 8 [] c = "9" -> 9
      RECURSIVE SpaceCount(_)
      SpaceCount(s) ==
        IF s # "" /\ isspace(Head(s)) THEN 1 + SpaceCount(Tail(s)) ELSE 0
      RECURSIVE DigitCount(_)
      DigitCount(s) ==
        IF s # "" /\ isdigit(Head(s)) THEN 1 + DigitCount(Tail(s)) ELSE 0
      RECURSIVE DecimalValue(_)
      DecimalValue(s) ==
        IF s = "" THEN 0
        ELSE 10 * DecimalValue(SubSeq(s, 1, Len(s) - 1))
               + DigitValue(SubSeq(s, Len(s), Len(s)))
      spaces   == SpaceCount(str)
      unsigned == erase(str, spaces)
      sign     == IF front(unsigned) \in {"+", "-"} THEN 1 ELSE 0
      digits   == DigitCount(erase(unsigned, sign))
      value    == DecimalValue(SubSeq(unsigned, sign + 1, sign + digits))
  IN IF digits = 0
       THEN [len |-> 0, num |-> 0]
       ELSE [len |-> spaces + sign + digits,
             num |-> IF front(unsigned) = "-" THEN 0 - value ELSE value]

readNum(str) ==
  LET n == strtol(str)
  IN IF n.len = 0
       THEN [ok |-> FALSE, str |-> str, num |-> 0]
       ELSE [ok |-> TRUE, str |-> erase(str, n.len), num |-> n.num]

(* `str.size() < num` compares as unsigned: a negative num is a huge one *)
name_too_long_never(str, num) == FALSE
name_too_long(str, num) == num < 0 \/ Len(str) < num

readName(str, out) ==
  LET n == readNum(str)
  IN IF ~n.ok THEN Fail(str, out)
     ELSE IF name_too_long(n.str, n.num) THEN Fail(n.str, out)
     ELSE Ok(erase(n.str, n.num), out \o substr(n.str, n.num))

(* std::string(num, '*') *)
RECURSIVE Stars(_)
Stars(num) ==
  IF num = 0 THEN ""
  ELSE IF num % 2 = 1 THEN "*" \o Stars(num - 1)
  ELSE LET half == Stars(num \div 2) IN half \o half

(* The loops that append args[i], with ", " between two of them *)
RECURSIVE Join(_)
Join(names) ==
  IF names = <<>> THEN ""
  ELSE IF Len(names) = 1 THEN names[1]
  ELSE names[1] \o ", " \o Join(Tail(names))

(* The table of SpecialTypes.def: one character per builtin type *)
SpecialTypes ==
  [c \in {"b", "v", "f", "d"} |->
     CASE c = "b" -> "Bool" [] c = "v" -> "Void" [] c = "f" -> "Float"
       [] c = "d" -> "Double"]

(* The table of MangledOperators.def: one character per operator *)
MangledOperators ==
  [c \in {"p", "m"} |-> CASE c = "p" -> "+" [] c = "m" -> "-"]

(* `if (!read(...)) { return false; }` and what follows it: a reader that  *)
(* did not return true ends the caller, else the caller goes on with what  *)
(* the reader left.  Local is the same for a reader that was handed a      *)
(* local string: the caller's own `out` stays as it was.                   *)
Then(result, Continue(_)) ==
  IF result.status # "ok" THEN result ELSE Continue(result)

Local(result, out, Continue(_)) ==
  IF result.status # "ok" THEN [result EXCEPT !.out = out] ELSE Continue(result)

RECURSIVE readType(_, _, _)
RECURSIVE readTypes(_, _, _, _)

(* The part of readType after the optional pointer prefix *)
readTypeBody(build, str, out) ==
  IF front_traps(build, str) THEN Abort(str, out)
  ELSE IF front(str) = "F" THEN
    Local(readTypes(build, erase(str, 1), <<>>, "R"), out \o "(",
          LAMBDA args :
            readType(build, erase(args.str, 1),
                     out \o "(" \o Join(args.out) \o ") -> "))
  ELSE IF front(str) = "A" THEN
    Local(readType(build, erase(str, 1), ""), out,
          LAMBDA underlying :
            Ok(underlying.str, out \o "[" \o underlying.out \o "]"))
  ELSE IF front(str) = "t" THEN
    Local(readTypes(build, erase(str, 1), <<>>, "T"), out \o "(",
          LAMBDA fields :
            Ok(erase(fields.str, 1), out \o "(" \o Join(fields.out) \o ")"))
  ELSE IF front(str) = "s" THEN
    IF front_traps(build, erase(str, 1)) THEN Abort(erase(str, 1), out)
    ELSE IF front(erase(str, 1)) = "i" THEN
      LET width == readNum(erase(str, 2))
      IN Ok(width.str,
            out \o "Int" \o (IF width.ok THEN ToString(width.num) ELSE ""))
    ELSE IF front(erase(str, 1)) \in DOMAIN SpecialTypes THEN
      Ok(erase(str, 2), out \o SpecialTypes[front(erase(str, 1))])
    ELSE Fail(erase(str, 1), out)
  ELSE readName(str, out)

(* After 'P' and its number: a negative count makes std::string(num, '*')  *)
(* throw std::length_error, which nothing catches                          *)
readPointee(build, level, out) ==
  IF ~level.ok THEN Fail(level.str, out)
  ELSE IF level.num < 0 THEN Abort(level.str, out)
  ELSE IF front_traps(build, level.str)
    THEN Abort(level.str, out \o Stars(level.num))
  ELSE IF front(level.str) # "T"
    THEN Fail(level.str, out \o Stars(level.num))
  ELSE readTypeBody(build, erase(level.str, 1), out \o Stars(level.num))

readType(build, str, out) ==
  IF front_traps(build, str) THEN Abort(str, out)
  ELSE IF front(str) = "P" THEN readPointee(build, readNum(erase(str, 1)), out)
  ELSE readTypeBody(build, str, out)

(* `while (str.front() != end) { readType(str, name); push_back(name); }`: *)
(* `out` of the result is the vector of the names read                     *)
readTypes(build, str, names, end) ==
  IF front_traps(build, str) THEN Abort(str, names)
  ELSE IF front(str) = end THEN Ok(str, names)
  ELSE Local(readType(build, str, ""), names,
             LAMBDA name : readTypes(build, name.str, Append(names, name.out), end))

(* What readArg puts before the internal name: nothing for a single-name   *)
(* argument, else the external name ("_" when there is none) and a space   *)
arg_label_unlabelled(isSingleName, external) ==
  (IF external = "" THEN "_" ELSE external) \o " "
arg_label(isSingleName, external) ==
  IF isSingleName THEN ""
  ELSE (IF external = "" THEN "_" ELSE external) \o " "

readArg(build, str, out) ==
  IF front_traps(build, str) THEN Abort(str, out)
  ELSE
    Local(IF front(str) = "E" THEN readName(erase(str, 1), "")
          ELSE Ok(IF front(str) = "S" THEN erase(str, 1) ELSE str, ""),
          out,
          LAMBDA external :
            Local(readName(external.str, ""), out,
                  LAMBDA internal :
                    Local(readType(build, internal.str, ""), out,
                          LAMBDA type :
                            Ok(type.str,
                               out \o arg_label(front(str) = "S", external.out)
                                   \o internal.out \o ": " \o type.out))))

(* `while (!symbol.empty() && symbol.front() != 'R') { readArg(...) }`:    *)
(* `out` of the result is the vector of the arguments read                 *)
RECURSIVE readArgs(_, _, _)
readArgs(build, symbol, args) ==
  IF symbol = "" \/ front(symbol) = "R" THEN Ok(symbol, args)
  ELSE Local(readArg(build, symbol, ""), args,
             LAMBDA arg : readArgs(build, arg.str, Append(args, arg.out)))

(* `type '.' name` of a method, and `type '.' name ": " type` of an        *)
(* accessor                                                                *)
readMember(build, symbol, out) ==
  Then(readType(build, symbol, out),
       LAMBDA type : readName(type.str, type.out \o "."))

readProperty(build, symbol, out) ==
  Then(readMember(build, symbol, out),
       LAMBDA member : readType(build, member.str, member.out \o ": "))

(* A type followed by a fixed suffix *)
readTypeThen(build, symbol, out, suffix) ==
  Then(readType(build, symbol, out),
       LAMBDA type : Ok(type.str, type.out \o suffix))

(* `if (symbol.front() == 'C') { ... out += " (closure #1)"; }` *)
readClosureTag(build, symbol, out) ==
  IF front_traps(build, symbol) THEN Abort(symbol, out)
  ELSE IF front(symbol) = "C" THEN Ok(erase(symbol, 1), out \o " (closure #1)")
  ELSE Ok(symbol, out)

(* `if (symbol.front() == 'R') { ... out += " -> " + type; }` *)
readReturn(build, symbol, out) ==
  IF front_traps(build, symbol) THEN Abort(symbol, out)
  ELSE IF front(symbol) = "R"
    THEN Local(readType(build, erase(symbol, 1), ""), out,
               LAMBDA type : Ok(type.str, out \o " -> " \o type.out))
  ELSE Ok(symbol, out)

(* demangleFunction from `out += '('` on: the arguments, the return type   *)
(* and the closure tag                                                     *)
readSignature(build, symbol, out) ==
  Local(readArgs(build, symbol, <<>>), out \o "(",
        LAMBDA args :
          Then(readReturn(build, args.str, out \o "(" \o Join(args.out) \o ")"),
               LAMBDA ret : readClosureTag(build, ret.str, ret.out)))

(* The part of demangleFunction before `out += '('` *)
readHead(build, symbol, out) ==
  IF front(symbol) = "M" THEN readMember(build, erase(symbol, 1), out)
  ELSE IF front(symbol) = "m"
    THEN readMember(build, erase(symbol, 1), out \o "static ")
  ELSE IF front(symbol) = "I"
    THEN readTypeThen(build, erase(symbol, 1), out, ".init")
  ELSE IF front(symbol) = "S"
    THEN readTypeThen(build, erase(symbol, 1), out, ".subscript")
  ELSE IF front(symbol) = "O" THEN
    IF front_traps(build, erase(symbol, 1)) THEN Abort(erase(symbol, 1), out)
    ELSE IF front(erase(symbol, 1)) \in DOMAIN MangledOperators
      THEN Ok(erase(symbol, 2), out \o MangledOperators[front(erase(symbol, 1))])
    ELSE Fail(erase(symbol, 1), out)
  ELSE readName(symbol, out)

(* demangleFunction after `symbol.erase(0, 1)` *)
readFunction(build, symbol, out) ==
  IF front_traps(build, symbol) THEN Abort(symbol, out)
  ELSE IF front(symbol) = "D"
    THEN readTypeThen(build, erase(symbol, 1), out, ".deinit")
  ELSE IF front(symbol) = "g"
    THEN readProperty(build, erase(symbol, 1), out \o "getter for ")
  ELSE IF front(symbol) = "s"
    THEN readProperty(build, erase(symbol, 1), out \o "setter for ")
  ELSE Then(readHead(build, symbol, out),
            LAMBDA head : readSignature(build, head.str, head.out))

demangleFunction(build, symbol, out) == readFunction(build, erase(symbol, 1), out)

demangleType(build, symbol, out) == readType(build, erase(symbol, 1), out)

demangleGlobal(symbol, out, kind) ==
  readName(erase(symbol, 1), out \o kind \o " for global ")

demangleWitnessTable(symbol, out) ==
  Then(readName(erase(symbol, 1), out \o "witness table for "),
       LAMBDA type : readName(type.str, type.out \o " to "))

(* assert(false && "closure demangling is unimplemented"); return false; *)
demangleClosure(build, symbol, out) ==
  IF build.NDEBUG THEN Fail(symbol, out) ELSE Abort(symbol, out)

demangleProtocol(symbol, out) == readName(erase(symbol, 1), out \o "protocol ")

(* demangle after the prefix was erased *)
demangleKind(build, symbol, out) ==
  IF front_traps(build, symbol) THEN Abort(symbol, out)
  ELSE IF front(symbol) = "C" THEN demangleClosure(build, symbol, out)
  ELSE IF front(symbol) = "F" THEN demangleFunction(build, symbol, out)
  ELSE IF front(symbol) = "T" THEN demangleType(build, symbol, out)
  ELSE IF front(symbol) = "g" THEN demangleGlobal(symbol, out, "accessor")
  ELSE IF front(symbol) = "G" THEN demangleGlobal(symbol, out, "initializer")
  ELSE IF front(symbol) = "W" THEN demangleWitnessTable(symbol, out)
  ELSE IF front(symbol) = "P" THEN demangleProtocol(symbol, out)
  ELSE Fail(symbol, out)

(* bool demangle(std::string &symbol, std::string &out) *)
demangle(build, symbol, out) ==
  IF substr(symbol, 2) # "_W" /\ substr(symbol, 3) # "__W" THEN Fail(symbol, out)
  ELSE demangleKind(build,
                    erase(symbol, IF substr(symbol, 2) = "_W" THEN 2 ELSE 3), out)

(* The address strdup returns *)
StrdupBase == 16384

(* A call of the demangler with what it gave back: `ret` is the returned   *)
(* bool or pointer, `out` the text the caller holds, `rest` what is left   *)
(* of the input string                                                     *)
DemangleCall(op, symbol, ret, out, result) ==
  [NoCall EXCEPT !.op = op, !.symbol = symbol, !.ret = ret, !.out = out,
                 !.rest = result.str]

(* The step of a demangler call.  abort() ends the process; what the C     *)
(* library writes on the way is not modelled.                              *)
DemangleStep(call, result) ==
  /\ ~exited
  /\ lastCall' = call
  /\ exited' = (result.status = "abort")
  /\ UNCHANGED <<otherVars, threads, boxes, ghost, pc, cur, prev, res, saw, deinitLog,
                 stderr, callsLeft, anys>>

(* A call of bool demangle(symbol, out) with out empty *)
demangle_returns(symbol, result) ==
  DemangleStep(DemangleCall("demangle", symbol,
                            IF result.status = "ok" THEN 1 ELSE 0,
                            result.out, result),
               result)

demangle_call(build, symbol) == demangle_returns(symbol, demangle(build, symbol, ""))

(* char *trill_demangle(const char *symbol): nullptr when demangle fails,  *)
(* else a copy of the text made by strdup                                  *)
trill_demangle_returns(symbol, result) ==
  DemangleStep(DemangleCall("trill_demangle", symbol,
                            IF result.status = "ok" THEN StrdupBase ELSE NULL,
                            IF result.status = "ok" THEN result.out ELSE "",
                            result),
               result)

trill_demangle(build, symbol) ==
  trill_demangle_returns(symbol, demangle(build, symbol, ""))

(* abi::__cxa_demangle(mangled, ...): the text of a name the C++ ABI       *)
(* demangler accepts, which this model does not decode                     *)
cxa_demangle(mangled) == "c++ name of " \o mangled

(* runtime.cpp, std::string demangle(std::string symbol): the text that    *)
(* trill_printStackTrace prints for a frame.  The parameter is the string  *)
(* that demangle(symbol, out) consumes, so after a failure __cxa_demangle  *)
(* and `out = symbol` see what is left of it.  Whether the C++ demangler   *)
(* accepts that text is cxaAccepts.  `ret` tells which branch returned:    *)
(* 1 the decoder, 2 the C++ demangler, 0 the fallback.                     *)
runtime_demangle_returns(symbol, result, cxaAccepts) ==
  DemangleStep([NoCall EXCEPT
                  !.op = "runtime_demangle",
                  !.symbol = symbol,
                  !.ret = IF result.status = "ok" THEN 1
                          ELSE IF result.status = "fail" /\ cxaAccepts THEN 2
                          ELSE 0,
                  !.out = IF result.status = "ok" THEN result.out
                          ELSE IF result.status = "abort" THEN ""
                          ELSE IF cxaAccepts THEN cxa_demangle(result.str)
                          ELSE result.str,
                  !.rest = result.str],
               result)

runtime_demangle(build, symbol, cxaAccepts) ==
  runtime_demangle_returns(symbol, demangle(build, symbol, ""), cxaAccepts)

(* Type encodings of the grammar `type := ('P' N 'T')? inner`, each with   *)
(* the text it stands for: named and Int types, and arrays, pointers,      *)
(* tuples and function types over them                                     *)
WellFormedTypes ==
  LET Plain == {[enc |-> "5Point", text |-> "Point"],
                [enc |-> "si", text |-> "Int"],
                [enc |-> "si8", text |-> "Int8"]}
  IN Plain
     \cup {[enc |-> "A" \o t.enc, text |-> "[" \o t.text \o "]"] : t \in Plain}
     \cup {[enc |-> "P2T" \o t.enc, text |-> "**" \o t.text] : t \in Plain}
     \cup {[enc |-> "tT", text |-> "()"]}
     \cup {[enc |-> "t" \o a.enc \o b.enc \o "T",
            text |-> "(" \o a.text \o ", " \o b.text \o ")"] :
             a \in Plain, b \in Plain}
     \cup {[enc |-> "F" \o a.enc \o "R" \o r.enc,
            text |-> "(" \o a.text \o ") -> " \o r.text] :
             a \in Plain, r \in Plain}

Prefixes == {"_W", "__W"}

(* Symbols in which a length-prefixed name declares more characters than   *)
(* remain: every place where the decoder reads a name, then a length that  *)
(* is too large                                                            *)
TruncatedNameSymbols ==
  {prefix \o before \o name :
     prefix \in Prefixes,
     before \in {"T", "TA", "TP1T", "Tt", "TF", "TFsiR", "FD", "FM", "FM5Point",
                 "Fm5Point", "Fg5Point", "Fg5Point1x", "FI", "FS", "F", "F3foo",
                 "F3fooS", "F3fooE", "F3fooE2to", "F3fooS1xsiR", "g", "G", "W",
                 "W5Point", "P"},
     name \in {"9Point", "6Point", "1", "10Printable"}}

(* The symbols the model demangles: function symbols put together from a   *)
(* head, at most MaxArgs arguments and a tail, the deinitializers of the   *)
(* types above, and a list of others                                       *)
MaxArgs == 2

Symbols ==
  LET FunctionHeads == {"3foo", "M5Point3foo"}
      ArgEncodings == {"S4namesi", "4nameSi", "E2to1xsi8", "1ysb", "S1pP1Tsi"}
      FunctionTails == {"", "Rsi", "RsiC", "C"}
      RECURSIVE ArgLists(_)
      ArgLists(n) ==
        IF n = 0 THEN {""}
        ELSE ArgLists(n - 1)
               \cup {arg \o args : arg \in ArgEncodings, args \in ArgLists(n - 1)}
  IN {prefix \o "F" \o head \o args \o tail :
        prefix \in Prefixes, head \in FunctionHeads,
        args \in ArgLists(MaxArgs), tail \in FunctionTails}
     \cup {prefix \o "FD" \o t.enc : prefix \in Prefixes, t \in WellFormedTypes}
     \cup TruncatedNameSymbols
     \cup
    {"", "_W", "__W", "_Z3foov", "W3foo", "_WX3foo", "_WC3foo", "__WC", "_WCsi",
    "_Wx", "__WD5Point", "_Wf3foo", "_W3foo", "WF3foo", "F3foo", "_wF3foo", "_WF",
    "_WFD5Point", "__WFD5Point", "_WFDP2T5Point", "_WFD9Point", "_WFD",
    "_WFm5Point4makeRsi", "_WFg5Point1xsi", "_WFs5Point1xsi", "_WFI5PointS1xsi",
    "_WFS5Point1isi", "_WFOpS1asiS1bsiRsi", "_WFOzS1asi", "_WFO",
    "_WT5Point", "_WTsi", "_WTsi08", "_WTsb", "_WTsz", "_WTs", "_WTP2Tsi",
    "_WTP-1Tsi", "_WTP2", "_WTP2si", "_WTAsi", "_WTA", "_WTtsisbT", "_WTtT",
    "_WTtsi", "_WTFsiRsb", "_WTFsisbRsv", "_WTFsi", "_WTFR", "_WT9Point",
    "_WT0", "_WT", "_WT 5Point", "_WT+5Point", "_WT-5Point",
    "_Wg5count", "_WG5count", "_Wg9count", "_WW5Point9Printable",
    "_WW5Point", "_WP9Printable", "_WP"}

(* A program that is about to demangle one symbol (lastCall.symbol, with   *)
(* no call made yet) and then does, through either entry point             *)
InitDemangle ==
  /\ threads = {1}
  /\ pc = [t \in AllThreads |-> "idle"]
  /\ cur = [t \in AllThreads |-> 0]
  /\ prev = [t \in AllThreads |-> 0]
  /\ res = [t \in AllThreads |-> FALSE]
  /\ saw = [t \in AllThreads |-> NoSaw]
  /\ deinitLog = <<>>
  /\ stderr = <<>>
  /\ exited = FALSE
  /\ \E symbol \in Symbols : lastCall = [NoCall EXCEPT !.symbol = symbol]
  /\ InitOther
  /\ callsLeft = 0
  /\ boxes = <<>>
  /\ ghost = <<>>
  /\ anys = <<>>

Demangle ==
  /\ lastCall.op = "none"
  /\ \E build \in Builds : demangle_call(build, lastCall.symbol)

TrillDemangle ==
  /\ lastCall.op = "none"
  /\ \E build \in Builds : trill_demangle(build, lastCall.symbol)

RuntimeDemangle ==
  /\ lastCall.op = "none"
  /\ \E build \in Builds, cxaAccepts \in BOOLEAN :
       runtime_demangle(build, lastCall.symbol, cxaAccepts)

NextDemangle ==
  \/ Demangle
  \/ TrillDemangle

SpecDemangle == InitDemangle /\ [][NextDemangle]_vars

(* The stack trace printer about to symbolize one frame *)
NextSymbolize == RuntimeDemangle

SpecSymbolize == InitDemangle /\ [][NextSymbolize]_vars

----------------------------------------------------------------------------
(* trill_once (runtime.cpp): std::call_once on the flag the caller passes. *)
(* A call is one of three executions ([thread.once.callonce]): it returns  *)
(* at once when the flag says the initializer has returned; it becomes the *)
(* active execution, calls the initializer and then sets the flag; or it   *)
(* waits for the active execution and returns after the flag is set.       *)

MaxOnceCalls == 5

OnceZero == 0        \* the zero-initialized flag
OnceActive == 1      \* an active execution is under way
OnceDone == 2        \* the initializer has returned

(* What a call does on entry, by the value of the flag *)
call_once_entry_noWait(flag) ==
  CASE flag = OnceZero -> "once_invoke"
    [] flag = OnceActive -> "idle"
    [] flag = OnceDone -> "idle"
call_once_entry(flag) ==
  CASE flag = OnceZero -> "once_invoke"
    [] flag = OnceActive -> "once_wait"
    [] flag = OnceDone -> "idle"

OnceFrame ==
  UNCHANGED <<threads, boxes, ghost, cur, prev, res, saw, deinitLog, stderr,
              exited, lastCall, anys, fatalVars, generics>>

(* trill_once(predicate, initializer): entry into std::call_once *)
trill_once(t) ==
  /\ pc[t] = "idle"
  /\ callsLeft > 0
  /\ ~exited
  /\ callsLeft' = callsLeft - 1
  /\ pc' = [pc EXCEPT ![t] = call_once_entry(predicate)]
  /\ predicate' = IF predicate = OnceZero THEN OnceActive ELSE predicate
  /\ UNCHANGED initialized
  /\ OnceFrame

(* The active execution calls initializer() *)
once_invoke(t) ==
  /\ pc[t] = "once_invoke"
  /\ initialized' = Append(initialized, "begin")
  /\ pc' = [pc EXCEPT ![t] = "once_initializer"]
  /\ UNCHANGED <<predicate, callsLeft>>
  /\ OnceFrame

(* initializer() returns to std::call_once *)
once_initializer_returns(t) ==
  /\ pc[t] = "once_initializer"
  /\ initialized' = Append(initialized, "end")
  /\ pc' = [pc EXCEPT ![t] = "once_set"]
  /\ UNCHANGED <<predicate, callsLeft>>
  /\ OnceFrame

(* The active execution sets the flag and returns *)
once_set(t) ==
  /\ pc[t] = "once_set"
  /\ predicate' = OnceDone
  /\ pc' = [pc EXCEPT ![t] = "idle"]
  /\ UNCHANGED <<initialized, callsLeft>>
  /\ OnceFrame

(* A passive execution returns once the flag is set *)
once_wait(t) ==
  /\ pc[t] = "once_wait"
  /\ predicate = OnceDone
  /\ pc' = [pc EXCEPT ![t] = "idle"]
  /\ UNCHANGED <<predicate, initialized, callsLeft>>
  /\ OnceFrame

(* Any number of threads, up to NThreads, that call trill_once with the    *)
(* same flag, MaxOnceCalls times in all                                    *)
InitOnce ==
  /\ \E ts \in SUBSET AllThreads : ts # {} /\ InitThreads(ts)
  /\ callsLeft = MaxOnceCalls
  /\ boxes = <<>>
  /\ ghost = <<>>

Once == \E t \in threads : trill_once(t)
OnceInvoke == \E t \in threads : once_invoke(t)
OnceInitializerReturns == \E t \in threads : once_initializer_returns(t)
OnceSet == \E t \in threads : once_set(t)
OnceWait == \E t \in threads : once_wait(t)

NextOnce ==
  \/ Once
  \/ OnceInvoke
  \/ OnceInitializerReturns
  \/ OnceSet
  \/ OnceWait

SpecOnce == InitOnce /\ [][NextOnce]_vars

----------------------------------------------------------------------------
(* runtime.cpp: the fatal-error path, one statement at a time               *)
(*                                                                         *)
(* The process is one call stack.  main calls trill_init and then runtime  *)
(* operations; an operation whose check fails calls trill_fatalError, which *)
(* prints its line and calls crash(), which prints the stack trace and     *)
(* calls exit(-1).  A fault raises a signal: in main (the program's own     *)
(* crash) or while a frame of the trace is symbolized (demangle() aborts   *)
(* through assert(false), or reads a null dli_sname).                      *)

MaxFatalCalls == 1     \* runtime operations main calls
MaxFrames == 1         \* frames that backtrace() reports

(* Callers of trill_fatalError: the message of the failed check and the    *)
(* statement that follows the check (trill_updateAny copies the new value  *)
(* after the type check, dealloc() runs the deinitializer after the count  *)
(* check)                                                                  *)
CallerOps ==
  {[fn |-> "trill_updateAny",
    msg |-> "checked cast failed: cannot convert Int8 to Pair",
    after |-> "memcpy"],
   [fn |-> "dealloc",
    msg |-> "object deallocated with retain count > 0",
    after |-> "deinit"]}

AfterOf(fn) == (CHOOSE op \in CallerOps : op.fn = fn).after

MsgOf(fn) == (CHOOSE op \in CallerOps : op.fn = fn).msg

strsignal(signal) ==
  CASE signal = "SIGABRT" -> "Aborted"
    [] signal = "SIGSEGV" -> "Segmentation fault"
    [] signal = "SIGILL" -> "Illegal instruction"

(* exit(status): the status the parent sees is status & 0377 *)
Exited(status) == [kind |-> "exit", status |-> status % 256, sig |-> ""]

Killed(signal) == [kind |-> "signal", status |-> 0, sig |-> signal]

FrameLine(i) == [prefix |-> "frame", msg |-> "", ptr |-> i]

top == stack[Len(stack)]

Top(fn, pos) ==
  /\ ~exited
  /\ Len(stack) > 0
  /\ top.fn = fn
  /\ top.pos = pos

SetTop(frame) == [stack EXCEPT ![Len(stack)] = frame]

Pop == SubSeq(stack, 1, Len(stack) - 1)

FatalFrame ==
  UNCHANGED <<threads, boxes, ghost, pc, cur, prev, res, saw, deinitLog,
              lastCall, anys, onceVars, generics>>

(* What signal() installs.  The handler stays installed and its signal is  *)
(* blocked while it runs (the BSD semantics of glibc and of macOS); where  *)
(* signal() resets the disposition instead (System V), a second fault with *)
(* the same signal ends the process just the same.                         *)
Handler == [fn |-> "trill_handleSignal"]

(* The kernel delivers a signal raised by the running code: the default    *)
(* action ends the process, and so does a fault whose signal is blocked;   *)
(* otherwise the handler is entered on top of the interrupted frame        *)
Deliver(signal) ==
  IF handlers[signal] = SIG_DFL \/ signal \in blocked
  THEN /\ exited' = TRUE
       /\ exitStatus' = Killed(signal)
       /\ UNCHANGED <<stack, handlers, blocked>>
  ELSE /\ stack' = Append(stack, [Frame("trill_handleSignal", "call")
                                     EXCEPT !.msg = signal])
       /\ blocked' = blocked \cup {signal}
       /\ UNCHANGED <<handlers, exited, exitStatus>>

(* trill_init(): signal(SIGABRT, ..); signal(SIGSEGV, ..); signal(SIGILL, ..) *)
trill_init ==
  /\ Top("main", "trill_init")
  /\ handlers' = [s \in Signals |-> Handler]
  /\ stack' = SetTop(Frame("main", "run"))
  /\ UNCHANGED <<blocked, executed, exitStatus, stderr, exited, callsLeft>>
  /\ FatalFrame

(* main calls a runtime operation *)
CallOperation ==
  /\ Top("main", "run")
  /\ callsLeft > 0
  /\ callsLeft' = callsLeft - 1
  /\ \E op \in CallerOps : stack' = Append(stack, Frame(op.fn, "check"))
  /\ UNCHANGED <<handlers, blocked, executed, exitStatus, stderr, exited>>
  /\ FatalFrame

(* The operation's check passes: it goes on to the statement after it *)
CheckPasses ==
  /\ ~exited
  /\ Len(stack) > 0
  /\ top.pos = "check"
  /\ stack' = SetTop([top EXCEPT !.pos = "after"])
  /\ UNCHANGED <<handlers, blocked, executed, exitStatus, stderr, exited,
                 callsLeft>>
  /\ FatalFrame

(* The operation's check fails: trill_fatalError(msg); the return address  *)
(* is the statement after the check                                        *)
CheckFails ==
  /\ ~exited
  /\ Len(stack) > 0
  /\ top.pos = "check"
  /\ stack' = Append(SetTop([top EXCEPT !.pos = "after"]),
                     [Frame("trill_fatalError", "fprintf")
                        EXCEPT !.msg = MsgOf(top.fn)])
  /\ UNCHANGED <<handlers, blocked, executed, exitStatus, stderr, exited,
                 callsLeft>>
  /\ FatalFrame

(* The statement after the check: memcpy, the deinitializer call *)
StatementAfter ==
  /\ ~exited
  /\ Len(stack) > 0
  /\ top.pos = "after"
  /\ executed' = Append(executed, AfterOf(top.fn))
  /\ stack' = SetTop([top EXCEPT !.pos = "return"])
  /\ UNCHANGED <<handlers, blocked, exitStatus, stderr, exited, callsLeft>>
  /\ FatalFrame

(* A function returns to its caller *)
Return ==
  /\ ~exited
  /\ Len(stack) > 1
  /\ top.pos = "return"
  /\ stack' = Pop
  /\ UNCHANGED <<handlers, blocked, executed, exitStatus, stderr, exited,
                 callsLeft>>
  /\ FatalFrame

(* main returns 0 when it has made its calls *)
MainReturns ==
  /\ Top("main", "run")
  /\ callsLeft = 0
  /\ exited' = TRUE
  /\ exitStatus' = Exited(0)
  /\ UNCHANGED <<stack, handlers, blocked, executed, stderr, callsLeft>>
  /\ FatalFrame

(* The program faults in its own code *)
FaultInMain ==
  /\ Top("main", "run")
  /\ \E signal \in Signals : Deliver(signal)
  /\ UNCHANGED <<executed, stderr, callsLeft>>
  /\ FatalFrame

(* trill_handleSignal(signal): trill_fatalError(strsignal(signal)) *)
trill_handleSignal ==
  /\ Top("trill_handleSignal", "call")
  /\ stack' = Append(SetTop([top EXCEPT !.pos = "return"]),
                     [Frame("trill_fatalError", "fprintf")
                        EXCEPT !.msg = strsignal(top.msg)])
  /\ UNCHANGED <<handlers, blocked, executed, exitStatus, stderr, exited,
                 callsLeft>>
  /\ FatalFrame

(* trill_fatalError: fprintf(stderr, "fatal error: %s\n", message) *)
fatalError_fprintf ==
  /\ Top("trill_fatalError", "fprintf")
  /\ stderr' = Append(stderr, FatalLine(top.msg, NULL))
  /\ stack' = SetTop([top EXCEPT !.pos = "crash"])
  /\ UNCHANGED <<handlers, blocked, executed, exitStatus, exited, callsLeft>>
  /\ FatalFrame

(* trill_fatalError: crash(); the function is TRILL_NORETURN, there is no  *)
(* statement after the call                                                *)
fatalError_crash ==
  /\ Top("trill_fatalError", "crash")
  /\ stack' = Append(SetTop([top EXCEPT !.pos = "unreachable"]),
                     Frame("crash", "trill_printStackTrace"))
  /\ UNCHANGED <<handlers, blocked, executed, exitStatus, stderr, exited,
                 callsLeft>>
  /\ FatalFrame

(* Where crash() goes on after trill_printStackTrace() *)
crash_continues_returns == "return"
crash_continues == "exit"

(* crash(): trill_printStackTrace() *)
crash_printStackTrace ==
  /\ Top("crash", "trill_printStackTrace")
  /\ stack' = Append(SetTop([top EXCEPT !.pos = crash_continues]),
                     Frame("trill_printStackTrace", "backtrace"))
  /\ UNCHANGED <<handlers, blocked, executed, exitStatus, stderr, exited,
                 callsLeft>>
  /\ FatalFrame

(* crash(): exit(-1) *)
crash_exit ==
  /\ Top("crash", "exit")
  /\ exited' = TRUE
  /\ exitStatus' = Exited(-1)
  /\ UNCHANGED <<stack, handlers, blocked, executed, stderr, callsLeft>>
  /\ FatalFrame

(* trill_printStackTrace: frames = backtrace(symbols, MAX_STACK_DEPTH) *)
printStackTrace_backtrace ==
  /\ Top("trill_printStackTrace", "backtrace")
  /\ \E frames \in 0..MaxFrames :
       stack' = SetTop([top EXCEPT !.pos = "fputs", !.frames = frames])
  /\ UNCHANGED <<handlers, blocked, executed, exitStatus, stderr, exited,
                 callsLeft>>
  /\ FatalFrame

(* trill_printStackTrace: fputs("Current stack trace:\n", stderr) *)
printStackTrace_fputs ==
  /\ Top("trill_printStackTrace", "fputs")
  /\ stderr' = Append(stderr, StackTraceLine)
  /\ stack' = SetTop([top EXCEPT !.pos = "for", !.i = 0])
  /\ UNCHANGED <<handlers, blocked, executed, exitStatus, exited, callsLeft>>
  /\ FatalFrame

(* The loop body when dladdr() finds nothing: continue *)
printStackTrace_continue ==
  /\ Top("trill_printStackTrace", "for")
  /\ top.i < top.frames
  /\ stack' = SetTop([top EXCEPT !.i = top.i + 1])
  /\ UNCHANGED <<handlers, blocked, executed, exitStatus, stderr, exited,
                 callsLeft>>
  /\ FatalFrame

(* The loop body when the frame is symbolized and printed *)
printStackTrace_fprintf ==
  /\ Top("trill_printStackTrace", "for")
  /\ top.i < top.frames
  /\ stderr' = Append(stderr, FrameLine(top.i))
  /\ stack' = SetTop([top EXCEPT !.i = top.i + 1])
  /\ UNCHANGED <<handlers, blocked, executed, exitStatus, exited, callsLeft>>
  /\ FatalFrame

(* The loop body when symbolizing the frame faults: demangle() reaches     *)
(* assert(false) and abort() raises SIGABRT, or handle.dli_sname is null   *)
(* and constructing the std::string reads address 0                        *)
printStackTrace_faults ==
  /\ Top("trill_printStackTrace", "for")
  /\ top.i < top.frames
  /\ \E signal \in Signals : Deliver(signal)
  /\ UNCHANGED <<executed, stderr, callsLeft>>
  /\ FatalFrame

(* The loop is over: trill_printStackTrace returns *)
printStackTrace_done ==
  /\ Top("trill_printStackTrace", "for")
  /\ top.i = top.frames
  /\ stack' = SetTop([top EXCEPT !.pos = "return"])
  /\ UNCHANGED <<handlers, blocked, executed, exitStatus, stderr, exited,
                 callsLeft>>
  /\ FatalFrame

InitFatal ==
  /\ InitThreads({1})
  /\ callsLeft = MaxFatalCalls
  /\ boxes = <<>>
  /\ ghost = <<>>

NextFatal ==
  \/ trill_init
  \/ CallOperation
  \/ CheckPasses
  \/ CheckFails
  \/ StatementAfter
  \/ Return
  \/ MainReturns
  \/ FaultInMain
  \/ trill_handleSignal
  \/ fatalError_fprintf
  \/ fatalError_crash
  \/ crash_printStackTrace
  \/ crash_exit
  \/ printStackTrace_backtrace
  \/ printStackTrace_fputs
  \/ printStackTrace_continue
  \/ printStackTrace_fprintf
  \/ printStackTrace_faults
  \/ printStackTrace_done

SpecFatal == InitFatal /\ [][NextFatal]_vars

(* The process keeps executing: a step that is possible is taken *)
SpecFatalLive == SpecFatal /\ WF_vars(NextFatal)

----------------------------------------------------------------------------
(* generics.cpp: the box of a value of generic type                         *)
(*                                                                         *)
(* struct GenericBox { typeMetadata; witnessTable; } is the header; the    *)
(* block that trill_createGenericBox allocates is the header followed by   *)
(* metadata->sizeInBits bytes.                                             *)

MaxGenerics == 2

SizeofGenericBox == 16      \* two pointers
GenericHeapBase == 32768

(* A null descriptor or witness table pointer *)
NullDescriptor == ""

WitnessTables == {"Printable", "Hashable"}

GenericPtrs == {generics[k].addr : k \in DOMAIN generics}

GenericAt(ptr) == CHOOSE k \in DOMAIN generics : generics[k].addr = ptr

NextGenericAddr ==
  IF generics = <<>> THEN GenericHeapBase
  ELSE LET last == generics[Len(generics)]
       IN last.addr + last.fullSize

(* auto fullSize = sizeof(GenericBox) + metadata->sizeInBits *)
fullSize(metadata) == SizeofGenericBox + metadata.sizeInBits

GenericBox(addr, typeMetadata, witnessTable) ==
  [addr |-> addr, fullSize |-> fullSize(TypeMetadata(typeMetadata)),
   typeMetadata |-> typeMetadata, witnessTable |-> witnessTable]

GenericFrame ==
  UNCHANGED <<threads, boxes, ghost, pc, cur, prev, res, saw, deinitLog,
              callsLeft, anys, onceVars, fatalVars>>

trill_createGenericBox(typeMetadata, witnessTable, mallocOk) ==
  /\ ~exited
  /\ LET call == [Returned("createGenericBox", NULL, NULL) EXCEPT
                    !.type = typeMetadata]
     IN IF typeMetadata = NullDescriptor
        THEN /\ trill_assertionFailure("typeMetadata != nullptr")
             /\ lastCall' = call
             /\ UNCHANGED generics
        ELSE IF witnessTable = NullDescriptor
        THEN /\ trill_assertionFailure("witnessTable != nullptr")
             /\ lastCall' = call
             /\ UNCHANGED generics
        ELSE IF ~mallocOk
        THEN /\ trill_fatalError(malloc_failed, NULL)
             /\ lastCall' = call
             /\ UNCHANGED generics
        ELSE /\ Len(generics) < MaxGenerics
             /\ generics' = Append(generics,
                                   GenericBox(NextGenericAddr, typeMetadata, witnessTable))
             /\ lastCall' = [call EXCEPT !.ret = NextGenericAddr]
             /\ UNCHANGED <<stderr, exited>>
  /\ GenericFrame

(* p + n for a pointer p to elements of elementSize bytes *)
pointer_add(p, n, elementSize) == p + n * elementSize

(* return reinterpret_cast<intptr_t *>(box) + sizeof(GenericBox) *)
genericBoxValuePtr(box) == pointer_add(box, SizeofGenericBox, PointerSize)

trill_genericBoxValuePtr(box) ==
  /\ ~exited
  /\ IF box = NULL
     THEN /\ trill_assertionFailure("box != nullptr")
          /\ lastCall' = Returned("genericBoxValuePtr", box, NULL)
     ELSE /\ lastCall' = Returned("genericBoxValuePtr", box, genericBoxValuePtr(box))
          /\ UNCHANGED <<stderr, exited>>
  /\ UNCHANGED generics
  /\ GenericFrame

(* A program that boxes values of generic type and asks for their address *)
InitGeneric ==
  /\ InitThreads({1})
  /\ callsLeft = 0
  /\ boxes = <<>>
  /\ ghost = <<>>

CreateGenericBox ==
  \E typeMetadata \in TypeIds \cup {NullDescriptor},
     witnessTable \in WitnessTables \cup {NullDescriptor},
     mallocOk \in BOOLEAN :
    trill_createGenericBox(typeMetadata, witnessTable, mallocOk)

GenericBoxValuePtr ==
  \E box \in GenericPtrs \cup {NULL} : trill_genericBoxValuePtr(box)

NextGeneric ==
  \/ CreateGenericBox
  \/ GenericBoxValuePtr

SpecGeneric == InitGeneric /\ [][NextGeneric]_vars

----------------------------------------------------------------------------
(* demangle.cpp: the readers on arbitrary input, and their loops one       *)
(* iteration at a time                                                     *)

MaxInputLen == 3

(* Characters of the grammar: type tags and terminators, the argument tag  *)
(* S, and digits ("0" is the name of length 0, "1" and one more character  *)
(* a name of length 1)                                                     *)
Alphabet == {"F", "R", "t", "T", "s", "i", "S", "0", "1"}

RECURSIVE Strings(_)
Strings(n) ==
  IF n = 0 THEN {""}
  ELSE Strings(n - 1) \cup {c \o s : c \in Alphabet, s \in Strings(n - 1)}

Inputs == Strings(MaxInputLen)

(* A call of one reader on the input: `rest` is what it leaves of it *)
reader_returns(op, str, result) ==
  DemangleStep([NoCall EXCEPT !.op = op, !.symbol = str,
                              !.ret = IF result.status = "ok" THEN 1 ELSE 0,
                              !.rest = result.str],
               result)

(* The loops: demangleFunction's `while (!symbol.empty() &&                *)
(* symbol.front() != 'R')` over readArg, and readType's                    *)
(* `while (str.front() != 'R')` and `while (str.front() != 'T')` over      *)
(* readType.  A loop is entered with the input as the string.              *)
Loops == {"args", "F", "t"}

LoopEnd(loop) == IF loop = "t" THEN "T" ELSE "R"

Iterating == 0       \* the loop has not been left
LoopLeft == 1        \* the condition was false: the code after the loop runs
ReturnedFalse == 2   \* `return false` inside the loop

(* The reader called in the body, which erases what it reads from the      *)
(* string it is handed by reference                                        *)
loop_element_by_value(build, loop, str) ==
  [(IF loop = "args" THEN readArg(build, str, "") ELSE readType(build, str, ""))
     EXCEPT !.str = str]
loop_element(build, loop, str) ==
  IF loop = "args" THEN readArg(build, str, "") ELSE readType(build, str, "")

(* A function as the explicit table of its values *)
Table(f) == f @@ <<>>

(* The body's reader on every string the loops can hold *)
loop_elements ==
  Table([build \in Builds |->
    Table([loop \in Loops |->
      Table([str \in Inputs |-> loop_element(build, loop, str)])])])

(* The loop condition is false *)
loop_over(loop, str) ==
  IF loop = "args" THEN str = "" \/ front(str) = "R"
  ELSE front(str) = LoopEnd(loop)

(* One evaluation of the loop condition and, if it is true, of the body *)
loop_iteration(build, loop) ==
  /\ ~exited
  /\ lastCall.op = loop
  /\ lastCall.ret = Iterating
  /\ IF loop # "args" /\ front_traps(build, lastCall.rest)
     THEN /\ exited' = TRUE
          /\ UNCHANGED lastCall
     ELSE IF loop_over(loop, lastCall.rest)
     THEN /\ lastCall' = [lastCall EXCEPT !.ret = LoopLeft]
          /\ UNCHANGED exited
     ELSE LET element == loop_elements[build][loop][lastCall.rest]
          IN /\ lastCall' =
                  [lastCall EXCEPT
                     !.rest = element.str,
                     !.idx = IF element.status = "ok" THEN @ + 1 ELSE @,
                     !.ret = IF element.status = "fail" THEN ReturnedFalse ELSE @]
             /\ exited' = (element.status = "abort")
  /\ UNCHANGED <<otherVars, threads, boxes, ghost, pc, cur, prev, res, saw,
                 deinitLog, stderr, callsLeft, anys>>

loop_entry(loop) ==
  /\ lastCall.op = "input"
  /\ lastCall' = [lastCall EXCEPT !.op = loop, !.ret = Iterating]
  /\ UNCHANGED <<otherVars, threads, boxes, ghost, pc, cur, prev, res, saw,
                 deinitLog, stderr, exited, callsLeft, anys>>

(* A program that is handed one input string and runs one reader, or one   *)
(* loop, on it                                                             *)
InitReaders ==
  /\ InitThreads({1})
  /\ callsLeft = 0
  /\ boxes = <<>>
  /\ ghost = <<>>

(* The program is handed its input *)
ReadInput ==
  /\ lastCall.op = "none"
  /\ \E input \in Inputs :
       lastCall' = [NoCall EXCEPT !.op = "input", !.symbol = input, !.rest = input]
  /\ UNCHANGED <<otherVars, threads, boxes, ghost, pc, cur, prev, res, saw,
                 deinitLog, stderr, exited, callsLeft, anys>>

ReadName ==
  /\ lastCall.op = "input"
  /\ reader_returns("readName", lastCall.symbol, readName(lastCall.symbol, ""))

ReadType ==
  /\ lastCall.op = "input"
  /\ \E build \in Builds :
       reader_returns("readType", lastCall.symbol, readType(build, lastCall.symbol, ""))

ReadArg ==
  /\ lastCall.op = "input"
  /\ \E build \in Builds :
       reader_returns("readArg", lastCall.symbol, readArg(build, lastCall.symbol, ""))

LoopEntry == \E loop \in Loops : loop_entry(loop)

LoopIteration == \E build \in Builds, loop \in Loops : loop_iteration(build, loop)

NextReaders ==
  \/ ReadInput
  \/ ReadName
  \/ ReadType
  \/ ReadArg
  \/ LoopEntry
  \/ LoopIteration

SpecReaders == InitReaders /\ [][NextReaders]_vars

(* The decoder keeps running: an iteration that is possible is taken *)
SpecReadersLive == SpecReaders /\ WF_vars(LoopIteration)

----------------------------------------------------------------------------
(* Vocabulary of the claims *)

Boxes == DOMAIN boxes

(* Box i was read or written after it was freed *)
UsedAfterFree(i) == ghost[i].afterFree # {}

(* Some thread is inside a call on box i (it has not returned) *)
InFlight(i) == \E t \in threads : pc[t] # "idle" /\ cur[t] = ValueOf(i)

InDealloc(t) == pc[t] \in {"dealloc_check", "dealloc_deinit", "dealloc_free"}

Occurrences(seq, x) == Cardinality({k \in DOMAIN seq : seq[k] = x})

DeinitEvent(i) == [ev |-> "deinit", arg |-> ValueOf(i)]

FreeEvent(i) == [ev |-> "free", arg |-> boxes[i].addr]

Retains(i) == Occurrences(ghost[i].hist, "retain")

Releases(i) == Occurrences(ghost[i].hist, "release")

UnderflowLines(value) ==
  <<FatalLine("retain count underflowed for ", value), StackTraceLine>>

OverflowLines(value) ==
  <<FatalLine("retain count overflowed for ", value), StackTraceLine>>

(* The Any box at address ptr after the step *)
AnyAfter(ptr) == anys'[CHOOSE k \in DOMAIN anys' : anys'[k].addr = ptr]

(* The first sizeInBytes bytes of the payload of a box: the value it holds *)
ValueBytes(box) == SubSeq(box.payload, 1, sizeInBytes(TypeMetadata(box.typeMetadata)))

(* The step leaves every Any box that existed before it as it was *)
OldAnysUnchanged == \A k \in DOMAIN anys : anys'[k] = anys[k]

----------------------------------------------------------------------------
(* C1: for a box with a non-null deinitializer, as long as no call is made *)
(* on the box after it was freed: the deinitializer is invoked only by the *)
(* release that took the count from 1 to 0, exactly once, with the payload *)
(* pointer allocateIndirectType returned, and before the box is freed; no  *)
(* other retain or release invokes it.                                     *)
C1_DeinitOnceBeforeFree ==
  \A i \in Boxes :
    (ghost[i].deinit # NULL /\ ~UsedAfterFree(i)) =>
      /\ ghost[i].events \in {<<>>, <<DeinitEvent(i)>>, <<DeinitEvent(i), FreeEvent(i)>>}
      /\ ~ghost[i].zeroed => (ghost[i].events = <<>> /\ Live(i))
      /\ Occurrences(deinitLog, ValueOf(i)) =
           Occurrences(ghost[i].events, DeinitEvent(i))
      /\ (ghost[i].zeroed /\ ~InFlight(i)) =>
           (ghost[i].events = <<DeinitEvent(i), FreeEvent(i)>> /\ ~Live(i))
      /\ ~Live(i) => ghost[i].events = <<DeinitEvent(i), FreeEvent(i)>>

C1_Witness ==
  \E i \in Boxes :
    /\ ghost[i].deinit # NULL
    /\ ~UsedAfterFree(i)
    /\ ghost[i].hist = <<"retain", "retain", "release", "release">>
    /\ ghost[i].events = <<DeinitEvent(i), FreeEvent(i)>>
    /\ deinitLog = <<ValueOf(i)>>

(* C2 as stated (scenario E1): after retain, retain, release, release the  *)
(* box is still alive and the deinitializer has not run; it is the third   *)
(* release that calls it, on a box that is not yet freed, without a fatal  *)
(* error.                                                                  *)
C2_AsStated ==
  \A i \in Boxes :
    (ghost[i].deinit # NULL /\ ~InFlight(i)) =>
      /\ ghost[i].hist = <<"retain", "retain", "release", "release">> =>
           (Live(i) /\ ghost[i].events = <<>>)
      /\ ghost[i].hist = <<"retain", "retain", "release", "release", "release">> =>
           (/\ "release" \notin ghost[i].afterFree
            /\ ghost[i].events = <<DeinitEvent(i), FreeEvent(i)>>
            /\ Occurrences(deinitLog, ValueOf(i)) = 1)

(* C2 amended: the box is allocated with count 0, so after retain, retain, *)
(* release the box is alive with the deinitializer not yet called, and the *)
(* second release is the call that invokes it, exactly once and with the   *)
(* original payload pointer, and frees the box; a third release operates   *)
(* on the freed box.                                                       *)
C2_SecondReleaseDeinits ==
  \A i \in Boxes :
    (ghost[i].deinit # NULL /\ ~InFlight(i)) =>
      /\ ghost[i].hist = <<"retain", "retain", "release">> =>
           (Live(i) /\ ghost[i].events = <<>> /\ Occurrences(deinitLog, ValueOf(i)) = 0)
      /\ ghost[i].hist = <<"retain", "retain", "release", "release">> =>
           (/\ ~Live(i)
            /\ "release" \notin ghost[i].afterFree
            /\ ghost[i].events = <<DeinitEvent(i), FreeEvent(i)>>
            /\ Occurrences(deinitLog, ValueOf(i)) = 1)
      /\ ghost[i].hist = <<"retain", "retain", "release", "release", "release">> =>
           "release" \in ghost[i].afterFree

C2_Witness ==
  \E i \in Boxes :
    /\ ghost[i].deinit # NULL
    /\ ~InFlight(i)
    /\ ghost[i].hist = <<"retain", "retain", "release", "release", "release">>
    /\ ghost[i].afterFree = {"release"}
    /\ Occurrences(deinitLog, ValueOf(i)) = 1

(* C3 as stated (scenario E2): isUniquelyReferenced gives true right after *)
(* the allocation, false after one retain, true after one more release.    *)
C3_AsStated ==
  \A t \in threads :
    pc[t] = "iur_ret" =>
      LET i == BoxOf(cur[t]) IN
        /\ ghost[i].hist = <<>> => res[t]
        /\ ghost[i].hist = <<"retain">> => ~res[t]
        /\ ghost[i].hist = <<"retain", "release">> => (res[t] /\ ~UsedAfterFree(i))

(* C3 amended: isUniquelyReferenced gives false right after the allocation *)
(* (count 0), true after the first retain, false after a second retain and *)
(* true again after one subsequent release.                                *)
C3_UniqueAfterFirstRetain ==
  \A t \in threads :
    pc[t] = "iur_ret" =>
      LET i == BoxOf(cur[t]) IN
        /\ ghost[i].hist = <<>> => ~res[t]
        /\ ghost[i].hist = <<"retain">> => res[t]
        /\ ghost[i].hist = <<"retain", "retain">> => ~res[t]
        /\ ghost[i].hist = <<"retain", "retain", "release">> => (res[t] /\ ~UsedAfterFree(i))

C3_Witness ==
  \E t \in threads :
    /\ pc[t] = "iur_ret"
    /\ ghost[BoxOf(cur[t])].hist = <<"retain", "retain", "release">>
    /\ res[t]
    /\ Live(BoxOf(cur[t]))

(* C4: allocateIndirectType leaves the box with retain count 0 and the     *)
(* deinitializer it was given; the first retain takes the count to 1, and  *)
(* isUniquelyReferenced is false on the box until that first retain.       *)
C4_AllocatedWithCountZero ==
  /\ \A i \in Boxes :
       (ghost[i].base = 0 /\ ~InFlight(i)) =>
         /\ ghost[i].hist = <<>> =>
              (Live(i) /\ boxes[i].retainCount = 0 /\ boxes[i].deinit = ghost[i].deinit)
         /\ ghost[i].hist = <<"retain">> => (Live(i) /\ boxes[i].retainCount = 1)
  /\ \A t \in threads :
       (pc[t] = "iur_ret" /\ ghost[BoxOf(cur[t])].base = 0) =>
         /\ ghost[BoxOf(cur[t])].hist = <<>> => ~res[t]
         /\ ghost[BoxOf(cur[t])].hist = <<"retain">> => res[t]

C4_Witness ==
  \E i \in Boxes :
    /\ ghost[i].hist = <<"retain">>
    /\ ~InFlight(i)
    /\ boxes[i].retainCount = 1
    /\ boxes[i].deinit = LogDeinit

(* C5: retain and release on one box are linearizable.  Under every       *)
(* interleaving of the threads, while no release has taken the count to 0, *)
(* the count is the starting count plus the retains minus the releases     *)
(* performed so far (no update is lost); and the result a thread loaded in *)
(* isUniquelyReferenced equals (count == 1) for a value the count had      *)
(* between that call's entry and its return.                               *)
C5_Linearizable ==
  /\ \A i \in Boxes :
       (Live(i) /\ ~ghost[i].zeroed) =>
         boxes[i].retainCount = ghost[i].base + Retains(i) - Releases(i)
  /\ \A t \in threads :
       (pc[t] = "iur_ret" /\ ~UsedAfterFree(BoxOf(cur[t]))) =>
         IF res[t] THEN saw[t].one ELSE saw[t].other

C5_Witness ==
  \E t \in threads, u \in threads, w \in threads :
    /\ pc[t] = "retain_check"
    /\ pc[u] = "release_check"
    /\ prev[u] > 1
    /\ pc[w] = "iur_ret"
    /\ saw[w].one /\ saw[w].other
    /\ boxes[1].retainCount = ghost[1].base

(* C6: when the threads use the box as ARC prescribes (no release without  *)
(* a reference, no call after the release that took the count to 0), and   *)
(* in particular when k threads holding one reference each release         *)
(* concurrently: one thread at most is in dealloc, it is the one whose     *)
(* decrement saw 1, the deinitializer runs at most once and exactly once   *)
(* (if there is one) by the time the box is freed, the box is freed once,  *)
(* and nothing reads or writes the box after the free.                     *)
C6_OneThreadDeallocs ==
  \A i \in Boxes :
    ghost[i].legal =>
      /\ ~UsedAfterFree(i)
      /\ \A t \in threads, u \in threads :
           (InDealloc(t) /\ InDealloc(u)) => t = u
      /\ \A t \in threads : InDealloc(t) => (prev[t] = 1 /\ ghost[i].zeroed)
      /\ ghost[i].events \in
           IF ghost[i].deinit = NULL
           THEN {<<>>, <<FreeEvent(i)>>}
           ELSE {<<>>, <<DeinitEvent(i)>>, <<DeinitEvent(i), FreeEvent(i)>>}
      /\ ~Live(i) => Occurrences(ghost[i].events, FreeEvent(i)) = 1
      /\ (ghost[i].zeroed /\ \A t \in threads : pc[t] = "idle") => ~Live(i)
      /\ (\E t \in threads : InDealloc(t)) => ~exited

C6_Witness ==
  /\ threads = {1, 2, 3}
  /\ ghost[1].legal
  /\ ghost[1].base = 3
  /\ ghost[1].hist = <<"release", "release", "release">>
  /\ ~Live(1)
  /\ ghost[1].events = <<DeinitEvent(1), FreeEvent(1)>>
  /\ pc[1] = "release_check" /\ prev[1] = 3
  /\ pc[2] = "release_check" /\ prev[2] = 2
  /\ pc[3] = "idle"

(* C7: a release that finds the count 0 (so also the release of a box that *)
(* was never retained) ends in the fatal-error path with the message       *)
(* "retain count underflowed for <ptr>": it does not return, it does not   *)
(* call the deinitializer and it does not free the box.                    *)
C7_UnderflowIsFatal ==
  [][\A t \in threads :
       /\ (pc[t] = "idle" /\ pc'[t] = "release_check"
            /\ Live(BoxOf(cur'[t])) /\ boxes[BoxOf(cur'[t])].retainCount = 0)
          => prev'[t] = 0
       /\ (pc[t] = "release_check" /\ prev[t] = 0)
          => /\ exited'
             /\ stderr' = stderr \o UnderflowLines(cur[t])
             /\ pc'[t] = pc[t]
             /\ deinitLog' = deinitLog
             /\ ghost'[BoxOf(cur[t])].events = ghost[BoxOf(cur[t])].events
             /\ boxes'[BoxOf(cur[t])].state = boxes[BoxOf(cur[t])].state]_vars

C7_Witness ==
  \E i \in Boxes :
    /\ ghost[i].hist = <<"release">>
    /\ exited
    /\ stderr = UnderflowLines(ValueOf(i))
    /\ Live(i)
    /\ ghost[i].events = <<>>
    /\ deinitLog = <<>>

(* C8: a retain that finds the count at UINT32_MAX ends in the fatal-error *)
(* path with the message "retain count overflowed for <ptr>"; a retain     *)
(* that finds any smaller count adds exactly 1 to it and returns.          *)
C8_OverflowIsFatal ==
  [][\A t \in threads :
       /\ (pc[t] = "idle" /\ pc'[t] = "retain_check" /\ Live(BoxOf(cur'[t])))
          => LET i == BoxOf(cur'[t]) IN
               /\ prev'[t] = boxes[i].retainCount
               /\ boxes[i].retainCount # UINT32_MAX
                    => boxes'[i].retainCount = boxes[i].retainCount + 1
       /\ (pc[t] = "retain_check" /\ prev[t] = UINT32_MAX)
          => /\ exited'
             /\ stderr' = stderr \o OverflowLines(cur[t])
             /\ pc'[t] = pc[t]
       /\ (pc[t] = "retain_check" /\ prev[t] # UINT32_MAX)
          => /\ ~exited'
             /\ pc'[t] = "idle"
             /\ stderr' = stderr]_vars

C8_Witness ==
  /\ exited
  /\ stderr = OverflowLines(ValueOf(1))
  /\ ghost[1].base = UINT32_MAX - 1
  /\ ghost[1].hist = <<"retain", "retain">>
  /\ Live(1)

(* C9: for a box created with a null deinitializer, as long as no call is  *)
(* made on the box after it was freed: the release that takes the count    *)
(* from 1 to 0 frees the box, no deinitializer is called, and dealloc does *)
(* not enter the fatal-error path.                                         *)
C9_NullDeinitJustFrees ==
  \A i \in Boxes :
    (ghost[i].deinit = NULL /\ ~UsedAfterFree(i)) =>
      /\ ghost[i].events \in {<<>>, <<FreeEvent(i)>>}
      /\ Occurrences(deinitLog, ValueOf(i)) = 0
      /\ (ghost[i].zeroed /\ ~InFlight(i)) =>
           (ghost[i].events = <<FreeEvent(i)>> /\ ~Live(i))
      /\ \A t \in threads : (InDealloc(t) /\ cur[t] = ValueOf(i)) => ~exited

C9_Witness ==
  \E i \in Boxes :
    /\ ghost[i].deinit = NULL
    /\ ghost[i].hist = <<"retain", "release">>
    /\ ~InFlight(i)
    /\ ~Live(i)
    /\ ghost[i].events = <<FreeEvent(i)>>
    /\ ~exited

(* C10: copyAny of an Any whose type is a reference type returns that     *)
(* same Any, allocates no box, and changes neither the payload of any Any  *)
(* nor the retain count (or anything else) of an ARC box.                  *)
C10_CopyOfReferenceShares ==
  [][(/\ lastCall'.op = "copyAny"
      /\ ~exited'
      /\ TypeMetadata(anys[AnyAt(lastCall'.any)].typeMetadata).isReferenceType # 0)
     => (/\ lastCall'.ret = lastCall'.any
         /\ anys' = anys
         /\ boxes' = boxes)]_vars

C10_Witness ==
  /\ lastCall.op = "copyAny"
  /\ ~exited
  /\ lastCall.ret = lastCall.any
  /\ anys[AnyAt(lastCall.any)].typeMetadata = "Node"
  /\ anys[AnyAt(lastCall.any)].payload =
       memcpy(Zeros(64), PointerBytes(ValueOf(1)), PointerSize)
  /\ boxes[1].retainCount = 1

(* C11: copyAny of an Any A whose type is a value type returns a new box B *)
(* with A's metadata and storage distinct from A's, whose first            *)
(* sizeInBytes payload bytes equal A's, and leaves A (and every other box) *)
(* unchanged; a later store through getAnyValuePtr of a box changes that   *)
(* box only, so writing into B does not change A.                          *)
C11_CopyOfValueIsFresh ==
  [][/\ (/\ lastCall'.op = "copyAny"
         /\ ~exited'
         /\ TypeMetadata(TypeOfAny(lastCall'.any)).isReferenceType = 0)
        => (/\ lastCall'.ret \notin AnyPtrs
            /\ Len(anys') = Len(anys) + 1
            /\ AnyAfter(lastCall'.ret).typeMetadata = TypeOfAny(lastCall'.any)
            /\ trill_getAnyValuePtr(lastCall'.ret) # trill_getAnyValuePtr(lastCall'.any)
            /\ ValueBytes(AnyAfter(lastCall'.ret)) = ValueBytes(anys[AnyAt(lastCall'.any)])
            /\ OldAnysUnchanged
            /\ boxes' = boxes)
     /\ (lastCall'.op = "store" /\ ~exited')
        => \A k \in DOMAIN anys :
             anys[k].addr # lastCall'.any => anys'[k] = anys[k]]_vars

C11_Witness ==
  /\ lastCall.op = "store"
  /\ Len(anys) = 2
  /\ lastCall.any = anys[2].addr
  /\ anys[1].typeMetadata = "Pair" /\ anys[2].typeMetadata = "Pair"
  /\ ValueBytes(anys[1]) = <<3, 5>>
  /\ ValueBytes(anys[2]) = <<0, 7>>

WithField(buffer, off, value) ==
  [j \in 1..Len(buffer) |->
     IF off < j /\ j <= off + Len(value) THEN value[j - off] ELSE buffer[j]]

(* C13 as stated: an updateAny(A, i, N) that returns has written exactly   *)
(* N.metadata.sizeInBytes bytes at field i's offset: field i equals N's    *)
(* value and every other byte of the buffer that holds A's fields (A's     *)
(* payload, or the object a reference-type A points to) is unchanged, as   *)
(* are N and every other box.                                              *)
C13_AsStated ==
  [][(lastCall'.op = "updateAny" /\ ~exited')
     => LET A == AnyAt(lastCall'.any)
            N == anys[AnyAt(lastCall'.arg)]
            off == FieldOf(TypeMetadata(anys[A].typeMetadata), lastCall'.idx).offset
        IN IF TypeMetadata(anys[A].typeMetadata).isReferenceType = 0
           THEN /\ anys'[A].payload = WithField(anys[A].payload, off, ValueBytes(N))
                /\ anys'[A].typeMetadata = anys[A].typeMetadata
                /\ \A k \in DOMAIN anys : k # A => anys'[k] = anys[k]
                /\ boxes' = boxes
           ELSE LET b == BoxPayloadAt(FieldBase(lastCall'.any))
                IN /\ boxes'[b].payload = WithField(boxes[b].payload, off, ValueBytes(N))
                   /\ anys' = anys]_vars

(* The buffer that holds the fields of the Any at ptr: its payload, or the *)
(* payload of the object a reference-type Any points to                    *)
FieldBuffer(ptr) ==
  IF TypeMetadata(TypeOfAny(ptr)).isReferenceType = 0
  THEN anys[AnyAt(ptr)].payload
  ELSE boxes[BoxPayloadAt(FieldBase(ptr))].payload

(* C14 as stated: an extractAnyField(A, i) that returns gives a newly      *)
(* allocated box B, distinct from A, with the descriptor of field i, whose *)
(* payload holds the sizeInBytes bytes of field i and nothing else of A    *)
(* (no byte beyond the end of field i is read, so the rest of B is as      *)
(* trill_alloc left it), and leaves A and every other box unchanged.       *)
C14_AsStated ==
  [][(lastCall'.op = "extractAnyField" /\ ~exited')
     => LET fieldMeta == FieldOf(TypeMetadata(TypeOfAny(lastCall'.any)), lastCall'.idx)
            n == sizeInBytes(TypeMetadata(fieldMeta.typeMetadata))
            B == AnyAfter(lastCall'.ret)
        IN /\ lastCall'.ret \notin AnyPtrs
           /\ B.typeMetadata = fieldMeta.typeMetadata
           /\ B.payload =
                memcpy(Zeros(Len(B.payload)),
                       SubSeq(FieldBuffer(lastCall'.any), fieldMeta.offset + 1,
                              fieldMeta.offset + n), n)
           /\ OldAnysUnchanged
           /\ boxes' = boxes]_vars

CastErrorLines(anyName, typeName) ==
  <<FatalLine(CastMessage(anyName, typeName), NULL), StackTraceLine>>

(* C15: updateAny(A, i, N) where the descriptor of field i is not the      *)
(* descriptor of N ends in the fatal-error path with the message "checked  *)
(* cast failed: cannot convert <field type> to <N's type>", and nothing    *)
(* has been written to A (or to any box or object) at that point.          *)
C15_UpdateTypeMismatchIsFatal ==
  [][(/\ lastCall'.op = "updateAny"
      /\ lastCall' # lastCall
      /\ lastCall'.idx < TypeMetadata(TypeOfAny(lastCall'.any)).fieldCount
      /\ FieldOf(TypeMetadata(TypeOfAny(lastCall'.any)), lastCall'.idx).typeMetadata
           # TypeOfAny(lastCall'.arg))
     => (/\ exited'
         /\ stderr' = stderr \o CastErrorLines(
              TypeMetadata(FieldOf(TypeMetadata(TypeOfAny(lastCall'.any)),
                                   lastCall'.idx).typeMetadata).name,
              TypeMetadata(TypeOfAny(lastCall'.arg)).name)
         /\ anys' = anys
         /\ boxes' = boxes)]_vars

C15_Witness ==
  /\ exited
  /\ lastCall.op = "updateAny"
  /\ lastCall.idx = 1
  /\ stderr = CastErrorLines("Int8", "Pair")
  /\ Len(anys) = 2
  /\ ValueBytes(anys[1]) = <<3, 5>>
  /\ lastCall.any = anys[1].addr

(* C16: checkedCast(A, T) returns, and then returns getAnyValuePtr(A),    *)
(* exactly when checkTypes(A, T) is true, that is when A's descriptor is T *)
(* itself; otherwise, also when T is another descriptor with the same      *)
(* name, it ends in the fatal-error path with "checked cast failed: cannot *)
(* convert <A's type name> to <T's name>".                                 *)
C16_CheckedCastIffSameDescriptor ==
  [][/\ (lastCall'.op = "checkTypes" /\ lastCall' # lastCall /\ lastCall'.any # NULL)
        => (/\ ~exited'
            /\ lastCall'.ret = 1 <=> TypeOfAny(lastCall'.any) = lastCall'.type
            /\ lastCall'.ret \in {0, 1})
     /\ (lastCall'.op = "checkedCast" /\ lastCall' # lastCall /\ lastCall'.any # NULL)
        => IF checkTypes(lastCall'.any, lastCall'.type) = 1
           THEN /\ ~exited'
                /\ stderr' = stderr
                /\ lastCall'.ret = trill_getAnyValuePtr(lastCall'.any)
                /\ TypeOfAny(lastCall'.any) = lastCall'.type
           ELSE /\ exited'
                /\ stderr' = stderr \o CastErrorLines(
                     TypeMetadata(TypeOfAny(lastCall'.any)).name,
                     TypeMetadata(lastCall'.type).name)]_vars

C16_Witness ==
  /\ exited
  /\ lastCall.op = "checkedCast"
  /\ lastCall.any # NULL
  /\ TypeOfAny(lastCall.any) = "Int8"
  /\ lastCall.type = "Int8@other"
  /\ stderr = CastErrorLines("Int8", "Int8")

OutOfBoundsLines(index, typeMeta) ==
  <<FatalLine(OutOfBoundsMessage(index, TypeMetadata(typeMeta).name,
                                 TypeMetadata(typeMeta).fieldCount), NULL),
    StackTraceLine>>

(* C17 as stated: getFieldMetadata(T, i) returns the i-th field descriptor *)
(* of T when i < T.fieldCount and otherwise ends in the fatal-error path   *)
(* with "field index <i> out of bounds for type <name> with <n> fields";   *)
(* getAnyFieldValuePtr with an out-of-range index ends in the same error,  *)
(* with no box touched.                                                    *)
C17_AsStated ==
  [][/\ (lastCall'.op \in {"getFieldMetadata", "fieldMetadata"} /\ lastCall' # lastCall)
        => IF lastCall'.idx < TypeMetadata(lastCall'.type).fieldCount
           THEN /\ ~exited'
                /\ lastCall'.field = TypeMetadata(lastCall'.type).fields[lastCall'.idx + 1]
           ELSE /\ exited'
                /\ stderr' = stderr \o OutOfBoundsLines(lastCall'.idx, lastCall'.type)
     /\ (/\ lastCall'.op = "getAnyFieldValuePtr"
         /\ lastCall' # lastCall
         /\ lastCall'.any # NULL
         /\ lastCall'.idx >= TypeMetadata(TypeOfAny(lastCall'.any)).fieldCount)
        => (/\ exited'
            /\ stderr' = stderr \o OutOfBoundsLines(lastCall'.idx, TypeOfAny(lastCall'.any))
            /\ anys' = anys
            /\ boxes' = boxes)]_vars

C19_AsStated ==
  [][(/\ lastCall'.op = "anyIsNil"
      /\ lastCall' # lastCall
      /\ lastCall'.any # NULL
      /\ TypeMetadata(TypeOfAny(lastCall'.any)).pointerLevel = 0
      /\ TypeMetadata(TypeOfAny(lastCall'.any)).isReferenceType = 0)
     => lastCall'.ret = 0]_vars

(* A call of the demangler that came back to its caller *)
Demangled(symbol) ==
  /\ lastCall.op \in {"demangle", "trill_demangle"}
  /\ lastCall.symbol = symbol
  /\ ~exited

(* C20 as stated: demangle("_WF3foo4nameSi") succeeds and yields exactly   *)
(* "foo(name: Int)".                                                       *)
C20_AsStated ==
  Demangled("_WF3foo4nameSi") =>
    /\ lastCall.ret # 0
    /\ lastCall.out = "foo(name: Int)"

(* C20, amended: the symbol the pattern describes (single-label S, then    *)
(* the length-4 name, then the special type si) is "_WF3fooS4namesi";      *)
(* whenever demangling it returns, it has succeeded and yielded exactly    *)
(* "foo(name: Int)" with nothing left of the input, while                  *)
(* demangle("_WF3foo4nameSi") fails (trill_demangle returns null) with     *)
(* "Si" left unread.                                                       *)
C20_DemangleFunctionExample ==
  /\ Demangled("_WF3fooS4namesi") =>
       /\ lastCall.ret # 0
       /\ lastCall.out = "foo(name: Int)"
       /\ lastCall.rest = ""
  /\ (lastCall.op \in {"demangle", "trill_demangle"}
        /\ lastCall.symbol = "_WF3foo4nameSi") =>
       /\ lastCall.ret = 0
       /\ ~exited
       /\ lastCall.rest = "Si"
       /\ lastCall.op = "trill_demangle" => lastCall.out = ""

C20_Witness ==
  /\ Demangled("_WF3fooS4namesi")
  /\ lastCall.op = "trill_demangle"
  /\ lastCall.ret = StrdupBase
  /\ lastCall.out = "foo(name: Int)"

(* A call of the demangler on `symbol`, however it ended *)
DemangleOf(symbol) ==
  /\ lastCall.op \in {"demangle", "trill_demangle"}
  /\ lastCall.symbol = symbol

(* C21 as stated: for every deinitializer symbol "_WFD" or "__WFD"         *)
(* followed by a well-formed type encoding, demangle succeeds and yields   *)
(* exactly the rendered type followed by ".deinit".                        *)
C21_AsStated ==
  \A prefix \in Prefixes, t \in WellFormedTypes :
    DemangleOf(prefix \o "FD" \o t.enc) =>
      /\ ~exited
      /\ lastCall.ret # 0
      /\ lastCall.out = t.text \o ".deinit"

(* The kind character of a symbol: the one after "_W" or "__W" (the null   *)
(* character when nothing follows the prefix); "no prefix" when the symbol *)
(* begins with neither                                                     *)
KindOf(symbol) ==
  IF substr(symbol, 2) = "_W" THEN front(erase(symbol, 2))
  ELSE IF substr(symbol, 3) = "__W" THEN front(erase(symbol, 3))
  ELSE "no prefix"

Called == lastCall.op \in {"demangle", "trill_demangle"}

InOnce(t) == pc[t] \in {"once_invoke", "once_initializer", "once_set", "once_wait"}

(* C23: with any number of threads calling trill_once on the same          *)
(* zero-initialized flag, the initializer is invoked at most once in every *)
(* interleaving, and whenever a call of trill_once returns (at once, as    *)
(* the active call or after waiting) the initializer has been invoked      *)
(* exactly once and that invocation has completed.                         *)
C23_OnceRunsInitializerOnce ==
  [][/\ Occurrences(initialized', "begin") <= 1
     /\ (callsLeft' < callsLeft /\ pc' = pc) => initialized' = <<"begin", "end">>
     /\ \A t \in threads :
          (InOnce(t) /\ pc'[t] = "idle") => initialized' = <<"begin", "end">>]_vars

C23_Witness ==
  /\ initialized = <<"begin", "end">>
  /\ predicate = OnceDone
  /\ callsLeft = 0
  /\ \A t \in threads : pc[t] = "idle"

----------------------------------------------------------------------------
(* The fatal-error path *)

(* trill_fatalError has been called and has not returned *)
InFatalError == \E k \in 1..Len(stack) : stack[k].fn = "trill_fatalError"

(* The message of the first trill_fatalError call on the stack *)
FirstFatalMsg ==
  stack[CHOOSE k \in 1..Len(stack) :
          /\ stack[k].fn = "trill_fatalError"
          /\ \A j \in 1..(k - 1) : stack[j].fn # "trill_fatalError"].msg

IsTraceHeader(line) == line = StackTraceLine

IsFatalLine(line) == line.prefix = "fatal error: "

NonzeroStatus ==
  \/ exitStatus.kind = "signal"
  \/ exitStatus.kind = "exit" /\ exitStatus.status # 0

(* C24: trill_fatalError(msg) never returns to its caller: once it is      *)
(* called no statement of a caller runs and its frame is never popped; it  *)
(* writes "fatal error: <msg>" first, the stack trace header only after    *)
(* that line, and the process then ends with a nonzero status, which       *)
(* happens in every execution.                                             *)
C24_FatalErrorNeverReturns ==
  /\ [][InFatalError => (InFatalError' /\ executed' = executed)]_vars
  /\ [](\A k \in 1..Len(stderr) :
          IsTraceHeader(stderr[k]) => \E j \in 1..(k - 1) : IsFatalLine(stderr[j]))
  /\ []((InFatalError /\ exited)
          => /\ NonzeroStatus
             /\ exitStatus.kind = "exit"
                  => /\ Len(stderr) >= 2
                     /\ stderr[1] = FatalLine(FirstFatalMsg, NULL)
                     /\ IsTraceHeader(stderr[2]))
  /\ (InFatalError ~> (exited /\ NonzeroStatus))

(* A failed check called trill_fatalError, which printed its line and the  *)
(* whole trace and ended the process through exit(-1); the memcpy after    *)
(* the check has not run                                                   *)
C24_Witness ==
  /\ exited
  /\ exitStatus = Exited(-1)
  /\ Len(stack) = 4
  /\ stack[2].fn = "trill_updateAny"
  /\ stack[2].pos = "after"
  /\ executed = <<>>
  /\ stderr = <<FatalLine("checked cast failed: cannot convert Int8 to Pair", NULL),
                StackTraceLine, FrameLine(0)>>

Count(seq, P(_)) == Cardinality({k \in 1..Len(seq) : P(seq[k])})

(* C25 as stated: at most one "fatal error:" line and at most one stack    *)
(* trace are ever printed                                                  *)
C25_AsStated ==
  /\ Count(stderr, IsFatalLine) <= 1
  /\ Count(stderr, IsTraceHeader) <= 1

----------------------------------------------------------------------------
(* The address of a field of an Any *)

(* A getAnyFieldValuePtr call on a box with an index inside the type *)
FieldPtrCalled(call) ==
  /\ call.op = "getAnyFieldValuePtr"
  /\ call.any # NULL
  /\ call.idx < TypeMetadata(TypeOfAny(call.any)).fieldCount

(* The pointer stored in the payload of the box (little-endian) *)
StoredObject(any) ==
  LET payload == anys[AnyAt(any)].payload
  IN payload[1] + 256 * payload[2] + 65536 * payload[3]

(* C26: for an Any A and i < fieldCount, getAnyFieldValuePtr(A, i) is      *)
(* base + fields[i].offset, where base is A's payload address for a value  *)
(* type and the pointer stored in A's payload, read once, for a reference  *)
(* type; when that stored pointer is null the call ends in the assertion   *)
(* failure "origPtr != nullptr" and returns no address.                    *)
C26_FieldValuePtrIsBasePlusOffset ==
  [][(FieldPtrCalled(lastCall') /\ lastCall' # lastCall)
       => LET any == lastCall'.any
              type == TypeMetadata(TypeOfAny(any))
              offset == type.fields[lastCall'.idx + 1].offset
          IN IF type.isReferenceType = 0
             THEN /\ ~exited'
                  /\ lastCall'.ret = (any + SizeofAnyBox) + offset
                  /\ stderr' = stderr
             ELSE IF StoredObject(any) = NULL
             THEN /\ exited'
                  /\ lastCall'.ret = NULL
                  /\ stderr' = stderr \o <<FatalLine("origPtr != nullptr", NULL),
                                            StackTraceLine>>
             ELSE /\ ~exited'
                  /\ lastCall'.ret = StoredObject(any) + offset
                  /\ stderr' = stderr]_vars

(* The address of the Node object's field was taken through its box: it is *)
(* inside the object, not inside the box                                   *)
C26_Witness ==
  /\ FieldPtrCalled(lastCall)
  /\ TypeOfAny(lastCall.any) = "Node"
  /\ ~exited
  /\ lastCall.ret = HeapBase + SizeofRefCountBox
  /\ lastCall.ret # lastCall.any + SizeofAnyBox

(* The address of the second field of a Pair was taken *)
C26_WitnessValueType ==
  /\ FieldPtrCalled(lastCall)
  /\ TypeOfAny(lastCall.any) = "Pair"
  /\ lastCall.idx = 1
  /\ lastCall.ret = lastCall.any + SizeofAnyBox + 1

(* The Node box holds a null object pointer and the call ended in the      *)
(* assertion failure                                                       *)
C26_WitnessNullObject ==
  /\ FieldPtrCalled(lastCall)
  /\ TypeOfAny(lastCall.any) = "Node"
  /\ StoredObject(lastCall.any) = NULL
  /\ exited

----------------------------------------------------------------------------
(* The generic box *)

(* C27 as stated: for every box returned by createGenericBox,              *)
(* genericBoxValuePtr(box) is the box address plus the size of the header  *)
(* and [valuePtr, valuePtr + sizeInBytes) lies inside the box's block.     *)
C27_AsStated ==
  (lastCall.op = "genericBoxValuePtr" /\ lastCall.any # NULL)
    => LET box == generics[GenericAt(lastCall.any)]
           size == TypeMetadata(box.typeMetadata).sizeInBits \div 8
       IN /\ lastCall.ret = box.addr + SizeofGenericBox
          /\ box.addr <= lastCall.ret
          /\ lastCall.ret + size <= box.addr + box.fullSize

----------------------------------------------------------------------------
(* The text printed for a frame of the stack trace *)

(* C28 as stated: when the decoder fails on a symbol and the C++ ABI       *)
(* demangler fails too, the text printed for the frame is the raw symbol,  *)
(* character for character.                                                *)
C28_AsStated ==
  (/\ lastCall.op = "runtime_demangle"
   /\ ~exited
   /\ lastCall.ret = 0)
    => lastCall.out = lastCall.symbol

----------------------------------------------------------------------------
(* The rendering of a function symbol *)

(* Well-formed function symbols (after the prefix) with the text the       *)
(* grammar gives them: a name or a method, up to MaxArgs arguments of the  *)
(* three label forms, an optional return type and an optional closure tag  *)
WellFormedFunctions ==
  LET Heads == {[enc |-> "3foo", text |-> "foo"],
                [enc |-> "M5Point3foo", text |-> "Point.foo"]}
      Args == {[enc |-> "S4namesi", text |-> "name: Int"],
               [enc |-> "E2to1xsi8", text |-> "to x: Int8"],
               [enc |-> "1ysb", text |-> "_ y: Bool"],
               [enc |-> "S1pP1Tsi", text |-> "p: *Int"]}
      Tails == {[enc |-> "", text |-> ""],
                [enc |-> "Rsi", text |-> " -> Int"],
                [enc |-> "RsiC", text |-> " -> Int (closure #1)"],
                [enc |-> "C", text |-> " (closure #1)"]}
      RECURSIVE ArgLists(_)
      ArgLists(n) ==
        IF n = 0 THEN {[enc |-> "", text |-> ""]}
        ELSE ArgLists(n - 1)
               \cup {[enc |-> arg.enc \o args.enc,
                      text |-> IF args.enc = "" THEN arg.text
                               ELSE arg.text \o ", " \o args.text] :
                       arg \in Args, args \in ArgLists(n - 1)}
  IN {[enc |-> "F" \o head.enc \o args.enc \o tail.enc,
       text |-> head.text \o "(" \o args.text \o ")" \o tail.text] :
        head \in Heads, args \in ArgLists(MaxArgs), tail \in Tails}

(* C29 as stated: for every well-formed function symbol demangle renders   *)
(* the argument list as '(' + the arguments joined by ", " + ')', each     *)
(* argument by its label form, then " -> type" for a return type and       *)
(* " (closure #1)" for a closure tag, with or without a return type.       *)
C29_AsStated ==
  \A prefix \in Prefixes, f \in WellFormedFunctions :
    DemangleOf(prefix \o f.enc) =>
      /\ ~exited
      /\ lastCall.ret # 0
      /\ lastCall.out = f.text

----------------------------------------------------------------------------
(* Termination of the decoder *)

ReaderOps == {"readName", "readType", "readArg"}

(* C30: the decoder terminates on every input: a readName, readType or     *)
(* readArg call that returns true has removed at least one character from  *)
(* the input, every iteration of the argument loop and of the 'F' and 't'  *)
(* element loops that stays in the loop has shortened the string, so a     *)
(* loop makes at most as many iterations as the input has characters, and  *)
(* every loop is left (condition false, `return false`, or the process     *)
(* stopped), also when the input ends before the terminator.               *)
C30_ReadersConsumeAndLoopsEnd ==
  /\ [][(lastCall.op = "input" /\ lastCall'.op \in ReaderOps /\ lastCall'.ret = 1)
          => Len(lastCall'.rest) < Len(lastCall'.symbol)]_vars
  /\ [][(/\ lastCall.op \in Loops
         /\ lastCall' # lastCall
         /\ lastCall'.ret = Iterating
         /\ ~exited')
          => /\ Len(lastCall'.rest) < Len(lastCall.rest)
             /\ lastCall'.idx <= Len(lastCall'.symbol) - Len(lastCall'.rest)]_vars
  /\ (lastCall.op \in Loops) ~> (lastCall.ret # Iterating \/ exited)

(* The 't' loop read two elements, the input ended before a 'T' appeared,  *)
(* and the loop was left through `return false`                            *)
C30_Witness ==
  /\ lastCall.op = "t"
  /\ lastCall.symbol = "0si"
  /\ lastCall.idx = 2
  /\ lastCall.rest = ""
  /\ lastCall.ret = ReturnedFalse
  /\ ~exited

(* readArg returned true after reading a name of length 0 and a type *)
C30_WitnessReader ==
  /\ lastCall.op = "readArg"
  /\ lastCall.symbol = "0si"
  /\ lastCall.ret = 1
  /\ lastCall.rest = ""

====
